---- MODULE Spec2Model ----
(***************************************************************************)
(* A model of mcp-preflight (src/mcp_preflight.py): one probe of an MCP    *)
(* server, from main() through inspect() and its five transport calls to   *)
(* the report that is post-processed (success) or rebuilt by the failure   *)
(* handler (an exception left inspect()).                                  *)
(*                                                                         *)
(* Text is modelled as a sequence of tokens: a token is a whole word       *)
(* (\w+, or a phrase of the rule tables that no pattern ever splits) or a  *)
(* single separator character (" ", "\n", "_", "-", "(", ")").  Two        *)
(* adjacent word tokens stand for one longer word ("get","file" is         *)
(* "getfile"), so \b holds between two tokens iff exactly one of them is   *)
(* made of word characters.  Letter case is not modelled: every token is   *)
(* written in the case its pattern expects.                                *)
(***************************************************************************)
EXTENDS Integers, Sequences, FiniteSets, TLC

VARIABLES
    pc,              \* position of the control flow of main()/inspect()
    quiet,           \* ns.quiet: errbuf is None and stderr goes to os.devnull
    include_signals, \* not ns.no_signals
    calls,           \* the transport calls issued so far, with their outcomes
    has_tools, has_resources, has_prompts,   \* capabilities declared at initialize
    status, errors, notes,                   \* inspect(): locals of the same names
    tools, risk, resources, templates, prompts,
    exc,             \* the exception in flight / caught by main(), or NoExc
    session,         \* the ClientSession context: "none", "open", "closed"
    transport,       \* the stdio_client context (the spawned process)
    errlog,          \* the diagnostic-capture stream: "open" or "closed"
    server_err,      \* the captured diagnostic text read back by main()
    report,          \* the report main() holds, or NoReport
    errbuf,          \* what the server has written to the capture file
    error_message,   \* the user-facing message of the failure handler
    emitted,         \* the report was handed to _emit_report
    exit_code,       \* -1 while running, 0 on success, 1 after SystemExit(1)
    escalated,       \* the statuses a run of _mark_partial went through
    arg, ret         \* a function applied on its own: its arguments, its result

vars == << pc, quiet, include_signals, calls, has_tools, has_resources, has_prompts,
           status, errors, notes, tools, risk, resources, templates, prompts,
           exc, session, transport, errlog, server_err, report, errbuf,
           error_message, emitted, exit_code, escalated, arg, ret >>

(***************************************************************************)
(* Bounds of the model.                                                    *)
(***************************************************************************)
MaxItems == 2       \* entries the server returns, over all its lists

(***************************************************************************)
(* String order.  Python compares str by code point; Lexicon lists every   *)
(* string the model sorts, in that order.                                  *)
(***************************************************************************)
Lexicon ==
    << "\n", " ", "(", ")", "-", "_",
       "ask", "auth_hint", "clear", "delete", "description", "do not tell user", "draft",
       "encoded secret material", "error", "fetch", "get", "ignore",
       "initialize", "instructions", "item", "leak", "list_prompts",
       "list_resource_templates", "list_resources", "list_tools", "mcp", "no",
       "ping", "prompt", "prompt injection phrase", "res://a", "res://b",
       "resource", "resource_template", "secret exfiltration", "server",
       "shell download hint", "startup_stacktrace", "stderr",
       "system prompt mention", "t1", "t2", "then", "timeout", "tool", "topic", "tpl://a",
       "tpl://b", "update" >>

Rank(s) == CHOOSE i \in 1..Len(Lexicon) : Lexicon[i] = s

StrLess(a, b) == Rank(a) < Rank(b)

\* Lexicographic order of two token sequences (str < str).
RECURSIVE SeqLess(_, _)
SeqLess(a, b) ==
    IF b = << >> THEN FALSE
    ELSE IF a = << >> THEN TRUE
    ELSE IF Head(a) = Head(b) THEN SeqLess(Tail(a), Tail(b))
    ELSE StrLess(Head(a), Head(b))

Range(s) == { s[i] : i \in DOMAIN s }

\* Without sorting.
SortBy_Unsorted(s, less) == s

\* list.sort / sorted: a stable sort by the strict order of the keys, given as
\* less[x][y] for the elements x, y of s.  An element moves behind those that are
\* smaller and those that are equal and earlier.
SortBy(s, less) ==
    LET pos(i) == 1 + Cardinality({ j \in DOMAIN s :
                        \/ less[s[j]][s[i]]
                        \/ (~less[s[i]][s[j]] /\ j < i) })
    IN  [ k \in DOMAIN s |-> s[CHOOSE i \in DOMAIN s : pos(i) = k] ]

BoundedSeq(S, n) == UNION { [1..k -> S] : k \in 0..n }

(***************************************************************************)
(* Text helpers.                                                           *)
(***************************************************************************)
Whitespace == { " ", "\n" }
NonWord == { " ", "\n", "-", "(", ")" }    \* "_" is a word character (\w)
ColonTokens == { "TypeError:", "ReferenceError:" }   \* a word followed by ":"
StartsWord(tok) == tok \notin NonWord
EndsWord(tok) == tok \notin NonWord \cup ColonTokens

RECURSIVE lstrip(_)
lstrip(s) ==
    IF s # << >> /\ Head(s) \in Whitespace THEN lstrip(Tail(s)) ELSE s

RECURSIVE rstrip(_)
rstrip(s) ==
    IF s # << >> /\ s[Len(s)] \in Whitespace
    THEN rstrip(SubSeq(s, 1, Len(s) - 1)) ELSE s

\* str.strip()
strip(s) == rstrip(lstrip(s))

\* " ".join(str(s).split()): runs of whitespace become one space, none at the ends.
RECURSIVE Collapse(_)
Collapse(s) ==
    IF s = << >> THEN << >>
    ELSE IF Head(s) \in Whitespace
         THEN << " " >> \o Collapse(lstrip(s))
         ELSE << Head(s) >> \o Collapse(Tail(s))

_normalize_text(s) == Collapse(strip(s))

\* \b before position i / after position j of text t.
BoundaryBefore(t, i) ==
    IF i = 1 THEN StartsWord(t[i]) ELSE EndsWord(t[i - 1]) # StartsWord(t[i])
BoundaryAfter(t, j) ==
    IF j = Len(t) THEN EndsWord(t[j]) ELSE EndsWord(t[j]) # StartsWord(t[j + 1])

\* re.search(r"\b<phrase>\b", t): the phrase occurs at a word boundary on both sides.
PhraseAt(t, i, phrase) ==
    /\ i + Len(phrase) - 1 <= Len(t)
    /\ \A k \in 1..Len(phrase) : t[i + k - 1] = phrase[k]
    /\ BoundaryBefore(t, i)
    /\ BoundaryAfter(t, i + Len(phrase) - 1)

SearchPhrase(t, phrase) == \E i \in 1..Len(t) : PhraseAt(t, i, phrase)

\* A pattern \b(a|b|...)\b is the set of its alternatives.
SearchAny(t, phrases) == \E p \in phrases : SearchPhrase(t, p)

(***************************************************************************)
(* Risk classification.                                                    *)
(***************************************************************************)
READ_PATTERNS ==
    { << v >> : v \in { "get", "list", "search", "read", "fetch", "find", "show", "view" } }
WRITE_PATTERNS ==
    { << v >> : v \in { "create", "add", "update", "set", "send", "write", "upload" } }
DESTRUCTIVE_PATTERNS ==
    { << v >> : v \in { "delete", "remove", "destroy", "drop", "purge", "clear", "reset" } }

\* re.sub(r"[_-]+", " ", text): every run of "_" and "-" becomes one space.
RECURSIVE SubSeparators(_)
SubSeparators(t) ==
    IF t = << >> THEN << >>
    ELSE IF Head(t) \in { "_", "-" }
         THEN IF Len(t) > 1 /\ t[2] \in { "_", "-" }
              THEN SubSeparators(Tail(t))
              ELSE << " " >> \o SubSeparators(Tail(t))
         ELSE << Head(t) >> \o SubSeparators(Tail(t))

\* With the verb sets tested in the order read, write, destructive.
classify_tool_ReadFirst(name, description) ==
    LET text == SubSeparators(name \o << " " >> \o description)
    IN  IF SearchAny(text, READ_PATTERNS) THEN << "green", "read" >>
        ELSE IF SearchAny(text, WRITE_PATTERNS) THEN << "yellow", "write" >>
        ELSE IF SearchAny(text, DESTRUCTIVE_PATTERNS) THEN << "red", "destructive" >>
        ELSE << "yellow", "write" >>

\* With read as the tier of a text no verb matches.
classify_tool_DefaultRead(name, description) ==
    LET text == SubSeparators(name \o << " " >> \o description)
    IN  IF SearchAny(text, DESTRUCTIVE_PATTERNS) THEN << "red", "destructive" >>
        ELSE IF SearchAny(text, WRITE_PATTERNS) THEN << "yellow", "write" >>
        ELSE << "green", "read" >>

\* classify_tool returns (icon, risk).
classify_tool(name, description) ==
    LET text == SubSeparators(name \o << " " >> \o description)
    IN  IF SearchAny(text, DESTRUCTIVE_PATTERNS) THEN << "red", "destructive" >>
        ELSE IF SearchAny(text, WRITE_PATTERNS) THEN << "yellow", "write" >>
        ELSE IF SearchAny(text, READ_PATTERNS) THEN << "green", "read" >>
        ELSE << "yellow", "write" >>

NoDescription == << "(", "no", " ", "description", ")" >>

\* A raw tool is [name, description]; description << >> stands for None or "".
_tool_dict(tool) ==
    LET desc == IF tool.description = << >> THEN NoDescription ELSE tool.description
        c == classify_tool(tool.name, desc)
    IN  [ name |-> tool.name, description |-> _normalize_text(desc),
          risk |-> c[2], icon |-> c[1] ]

\* A raw prompt is [name, arguments, description]; the dict's description << >> is None.
_prompt_dict(prompt) ==
    [ name |-> prompt.name,
      arguments |-> prompt.arguments,
      description |-> IF prompt.description # << >>
                      THEN _normalize_text(prompt.description) ELSE << >> ]

RISK_PRIORITY(r) ==
    CASE r = "destructive" -> 0
      [] r = "write" -> 1
      [] r = "read" -> 2
      [] OTHER -> 9

\* The sort key of inspect(): (RISK_PRIORITY.get(t["risk"], 9), t["name"]).
ToolLess(a, b) ==
    \/ RISK_PRIORITY(a.risk) < RISK_PRIORITY(b.risk)
    \/ (RISK_PRIORITY(a.risk) = RISK_PRIORITY(b.risk) /\ SeqLess(a.name, b.name))

PromptLess(a, b) == SeqLess(a.name, b.name)

\* Counting the distinct tools of each tier.
count_risks_Distinct(ts) ==
    [ r \in { "read", "write", "destructive" } |->
        Cardinality({ ts[i] : i \in { k \in DOMAIN ts : ts[k].risk = r } }) ]

count_risks(ts) ==
    [ r \in { "read", "write", "destructive" } |->
        Cardinality({ i \in DOMAIN ts : ts[i].risk = r }) ]

\* Never escalates.
_mark_partial_Never(current) == current

_mark_partial_Always(current) == "partial"

\* _mark_partial: escalate to "partial" without downgrading from a worse status.
_mark_partial(current) == IF current # "ok" THEN current ELSE "partial"

(***************************************************************************)
(* Signal scanner.                                                         *)
(***************************************************************************)
\* The labels of SUSPICIOUS_PATTERNS, in table order.
SUSPICIOUS_PATTERNS ==
    << "prompt injection phrase", "secret exfiltration", "do not tell user",
       "system prompt mention", "encoded secret material", "shell download hint" >>

\* A token of `words` stands at i as a whole word.
WordAt(t, i, words) ==
    t[i] \in words /\ BoundaryBefore(t, i) /\ BoundaryAfter(t, i)

\* ".*" between positions i and j: no line break in between.
SameLine(t, i, j) == \A k \in (i + 1)..(j - 1) : t[k] # "\n"

\* pat.search(text) for the pattern of `label`.
Suspicious(label, t) ==
    CASE label = "prompt injection phrase" ->
            \E i, j \in DOMAIN t :
                /\ i < j /\ SameLine(t, i, j)
                /\ WordAt(t, i, { "ignore", "disregard" })
                /\ WordAt(t, j, { "instructions", "system", "developer" })
      [] label = "secret exfiltration" ->
            \E i \in DOMAIN t :
                /\ t[i] \in { "exfiltrate", "steal", "leak" }
                /\ BoundaryBefore(t, i)
      [] label = "do not tell user" ->
            \E i, j, k \in DOMAIN t :
                /\ i < j /\ j < k /\ SameLine(t, i, k)
                /\ \/ WordAt(t, i, { "don't" })
                   \/ (PhraseAt(t, i, << "do", " ", "not" >>) /\ i + 2 < j)
                /\ WordAt(t, j, { "tell", "mention", "reveal" })
                /\ WordAt(t, k, { "user" })
      [] label = "system prompt mention" ->
            SearchAny(t, { << "system", " ", "prompt" >>, << "developer", " ", "message" >> })
      [] label = "encoded secret material" ->
            \E i, j \in DOMAIN t :
                /\ i + 3 < j
                /\ t[i] = "BEGIN" /\ BoundaryBefore(t, i) /\ t[i + 1] = " "
                /\ \A k \in (i + 2)..(j - 2) : t[k] = " " \/ (StartsWord(t[k]) /\ EndsWord(t[k]))
                /\ t[j - 1] = " " /\ t[j] = "KEY" /\ BoundaryAfter(t, j)
      [] label = "shell download hint" ->
            \E i, j \in DOMAIN t :
                /\ i + 1 < j
                /\ WordAt(t, i, { "curl", "wget" })
                /\ \A k \in (i + 1)..(j - 1) : t[k] \in Whitespace
                /\ t[j] \in { "http://", "https://" }

SnippetLimit == 200

\* text[:200] + ("..." if len(text) > 200 else "")
SignalSnippet(t) ==
    IF Len(t) > SnippetLimit THEN SubSeq(t, 1, SnippetLimit) \o << "..." >> ELSE t

\* The loop of scan over the rule table `table`: one signal per matching rule, in
\* table order.
ScanTable(table, kind, name, text) ==
    LET hit(i) == Suspicious(table[i], text)
        idx == { i \in DOMAIN table : hit(i) }
        nth(k) == CHOOSE i \in idx : Cardinality({ j \in idx : j < i }) = k - 1
    IN  [ k \in 1..Cardinality(idx) |->
            [ kind |-> kind, name |-> name, rule |-> table[nth(k)],
              snippet |-> SignalSnippet(text) ] ]

\* scan(kind, name, text): the loop over SUSPICIOUS_PATTERNS.
scan(kind, name, text) == ScanTable(SUSPICIOUS_PATTERNS, kind, name, text)

RECURSIVE Flatten(_)
Flatten(ss) == IF ss = << >> THEN << >> ELSE Head(ss) \o Flatten(Tail(ss))

\* " ".join(arguments)
RECURSIVE JoinSpace(_)
JoinSpace(ws) ==
    IF ws = << >> THEN << >>
    ELSE IF Len(ws) = 1 THEN << ws[1] >>
    ELSE << ws[1], " " >> \o JoinSpace(Tail(ws))

\* The sort key (kind, name, rule) of signals: name is a text.
SignalLess(a, b) ==
    \/ StrLess(a.kind, b.kind)
    \/ (a.kind = b.kind /\ SeqLess(a.name, b.name))
    \/ (a.kind = b.kind /\ a.name = b.name /\ StrLess(a.rule, b.rule))

\* collect_signals with the rule table `table` in the place of SUSPICIOUS_PATTERNS.
CollectTable(table, ts, resource_uris, template_uris, ps) ==
    LET found ==
            Flatten([ i \in DOMAIN ts |->
                ScanTable(table, "tool", ts[i].name,
                          ts[i].name \o << " " >> \o ts[i].description) ])
            \o Flatten([ i \in DOMAIN resource_uris |->
                ScanTable(table, "resource", resource_uris[i], resource_uris[i]) ])
            \o Flatten([ i \in DOMAIN template_uris |->
                ScanTable(table, "resource_template", template_uris[i], template_uris[i]) ])
            \o Flatten([ i \in DOMAIN ps |->
                ScanTable(table, "prompt", ps[i].name,
                     strip(ps[i].name \o << " " >> \o JoinSpace(ps[i].arguments)
                           \o << " " >> \o ps[i].description)) ])
    IN  SortBy(found, [ a \in Range(found) |-> [ b \in Range(found) |-> SignalLess(a, b) ] ])

collect_signals(ts, resource_uris, template_uris, ps) ==
    CollectTable(SUSPICIOUS_PATTERNS, ts, resource_uris, template_uris, ps)

(***************************************************************************)
(* Stderr classifier.                                                      *)
(***************************************************************************)
AUTH_HINT_PATTERNS ==
    << { << "no", " ", a, " ", c >> :
            a \in { "authentication", "auth" }, c \in { "token", "credential", "credentials" } },
       { << a, " ", r >> :
            a \in { "authenticate", "authentication" }, r \in { "required", "needed" } },
       { << "please", " ", "authenticate" >> },
       { << "auth_login" >> },
       { << "login", " ", "required" >> },
       { << "unauthorized" >> } >>

\* STACKTRACE_PATTERNS: "\bTypeError:" has no closing \b, the others have one.
StacktraceAt(t, i) ==
    \/ PhraseAt(t, i, << "ReferenceError:" >>)
    \/ (t[i] = "TypeError:" /\ BoundaryBefore(t, i))
    \/ PhraseAt(t, i, << "UnhandledPromiseRejection" >>)
    \/ \E e \in { "error", "errors" } :
            PhraseAt(t, i, << "unhandled", " ", e, " ", "in", " ", "a", " ", "TaskGroup" >>)
    \/ PhraseAt(t, i, << "Fatal", " ", "error" >>)

\* The sort key (kind, name, rule) of notes: name is a plain string.
NoteLess(a, b) ==
    \/ StrLess(a.kind, b.kind)
    \/ (a.kind = b.kind /\ StrLess(a.name, b.name))
    \/ (a.kind = b.kind /\ a.name = b.name /\ StrLess(a.rule, b.rule))

Find(t, tok) ==
    IF \E i \in DOMAIN t : t[i] = tok
    THEN CHOOSE i \in DOMAIN t : t[i] = tok /\ \A j \in 1..(i - 1) : t[j] # tok
    ELSE 0

\* _stderr_excerpt: the whole text, or a marker and its tail cut at a line start.
\* (Find is 1-based: Python's 0 <= nl <= 200 is 1 <= nl <= 201 here.)
_stderr_excerpt(server_err_, max_chars) ==
    LET s == strip(server_err_)
        tail == SubSeq(s, Len(s) - max_chars + 1, Len(s))
        nl == Find(tail, "\n")
    IN  IF Len(s) <= max_chars THEN s
        ELSE << "ELLIPSIS", "\n" >>
             \o (IF 1 <= nl /\ nl <= 201 THEN SubSeq(tail, nl + 1, Len(tail)) ELSE tail)

Prefix(s, n) == SubSeq(s, 1, IF Len(s) < n THEN Len(s) ELSE n)

has_auth_hint(server_err_) ==
    LET text == _normalize_text(server_err_)
    IN  \E k \in DOMAIN AUTH_HINT_PATTERNS : SearchAny(text, AUTH_HINT_PATTERNS[k])

has_stacktrace(server_err_) == \E i \in DOMAIN server_err_ : StacktraceAt(server_err_, i)

\* stderr_notes returns (notes, flags); these are the notes.
stderr_notes(server_err_) ==
    LET found ==
        (IF has_auth_hint(server_err_)
         THEN << [ kind |-> "server", name |-> "stderr", rule |-> "auth_hint",
                   snippet |-> Prefix(_stderr_excerpt(server_err_, 600), 600) ] >>
         ELSE << >>)
        \o
        (IF has_stacktrace(server_err_)
         THEN << [ kind |-> "server", name |-> "stderr", rule |-> "startup_stacktrace",
                   snippet |-> Prefix(_stderr_excerpt(server_err_, 900), 900) ] >>
         ELSE << >>)
    IN  SortBy(found, [ a \in Range(found) |-> [ b \in Range(found) |-> NoteLess(a, b) ] ])

(***************************************************************************)
(* Exceptions.  A leaf has a type and no sub-exceptions; an exception      *)
(* group carries the exceptions it bundles.                                *)
(***************************************************************************)
Leaf(ty) == [ type |-> ty, exceptions |-> << >> ]
Group(subs) == [ type |-> "ExceptionGroup", exceptions |-> subs ]
NoExc == Leaf("none")

\* isinstance(e, Exception): CancelledError derives from BaseException only.
IsException(e) == e.type # "CancelledError"

\* Looks at the exception and at the members of a group, not inside nested groups.
contains_timeout_Shallow(e) ==
    \/ e.type \in { "TimeoutError", "CancelledError", "BrokenResourceError",
                    "ClosedResourceError" }
    \/ \E i \in DOMAIN e.exceptions :
            e.exceptions[i].type \in { "TimeoutError", "CancelledError",
                                       "BrokenResourceError", "ClosedResourceError" }

RECURSIVE contains_timeout(_)
contains_timeout(e) ==
    IF e.type \in { "TimeoutError", "CancelledError" } THEN TRUE
    ELSE IF e.type \in { "BrokenResourceError", "ClosedResourceError" } THEN TRUE
    ELSE IF e.type = "ExceptionGroup"
         THEN \E i \in DOMAIN e.exceptions : contains_timeout(e.exceptions[i])
         ELSE FALSE

(***************************************************************************)
(* Reports.                                                                *)
(***************************************************************************)
NoReport == [ status |-> "none" ]

ZeroRisk == [ r \in { "read", "write", "destructive" } |-> 0 ]

\* With a status that the signals found make partial.
_build_report_SignalsEscalate(server_name, capabilities, st, ts, resource_uris, template_uris, ps, sigs, ns, rk, errs) ==
    [ server |-> server_name, capabilities |-> capabilities,
      status |-> IF sigs # << >> /\ st = "ok" THEN "partial" ELSE st,
      tools |-> ts, resources |-> resource_uris, resourceTemplates |-> template_uris,
      prompts |-> ps, risk |-> rk, signals |-> sigs, notes |-> ns, errors |-> errs ]

_build_report(server_name, capabilities, st, ts, resource_uris, template_uris, ps, sigs, ns, rk, errs) ==
    [ server |-> server_name, capabilities |-> capabilities, status |-> st,
      tools |-> ts, resources |-> resource_uris, resourceTemplates |-> template_uris,
      prompts |-> ps, risk |-> rk, signals |-> sigs, notes |-> ns, errors |-> errs ]

Note(name, rule) ==
    [ kind |-> "mcp", name |-> name, rule |-> rule,
      snippet |-> IF rule = "timeout" THEN << "Timed out after Ns" >> ELSE << "str(e)" >> ]

\* _read_captured_stderr: "" without a capture buffer, else its stripped content.
_read_captured_stderr(is_quiet, buf) == IF is_quiet THEN << >> ELSE strip(buf)

\* Sets auth_gated on the hint alone, whatever was enumerated.
_postprocess_success_HintOnly(rep, server_err_) ==
    IF server_err_ = << >> THEN rep
    ELSE LET ns == stderr_notes(server_err_)
             both == rep.notes \o ns
             merged == IF ns # << >>
                       THEN SortBy(both, [ a \in Range(both) |-> [ b \in Range(both) |-> NoteLess(a, b) ] ])
                       ELSE rep.notes
         IN  [ rep EXCEPT !.notes = merged,
                          !.status = IF has_auth_hint(server_err_) THEN "auth_gated" ELSE @ ]

\* _postprocess_success: merge the stderr notes, set auth_gated.
_postprocess_success(rep, server_err_) ==
    IF server_err_ = << >> THEN rep
    ELSE LET ns == stderr_notes(server_err_)
             both == rep.notes \o ns
             merged == IF ns # << >>
                       THEN SortBy(both, [ a \in Range(both) |-> [ b \in Range(both) |-> NoteLess(a, b) ] ])
                       ELSE rep.notes
             gated == /\ has_auth_hint(server_err_)
                      /\ rep.tools = << >> /\ rep.resources = << >>
                      /\ rep.resourceTemplates = << >> /\ rep.prompts = << >>
         IN  [ rep EXCEPT !.notes = merged,
                          !.status = IF gated THEN "auth_gated" ELSE @ ]

(***************************************************************************)
(* The failure handler.                                                    *)
(***************************************************************************)
\* Without the stacktrace override.
FailureIsTimeout_NoOverride(e, server_err_) == contains_timeout(e)

\* is_timeout of _handle_inspect_failure: a stacktrace in stderr overrides it.
FailureIsTimeout(e, server_err_) ==
    IF server_err_ # << >> /\ has_stacktrace(server_err_) THEN FALSE
    ELSE contains_timeout(e)

FailureHasAuthHint(server_err_) == server_err_ # << >> /\ has_auth_hint(server_err_)

\* With a status of its own for the generic error.
FailureStatus_Generic(e, server_err_) ==
    IF FailureHasAuthHint(server_err_) THEN "auth_required"
    ELSE IF FailureIsTimeout(e, server_err_) THEN "timeout"
    ELSE IF has_stacktrace(server_err_) THEN "startup_error" ELSE "error"

\* With a status of its own for a crash.
FailureStatus_Crashed(e, server_err_) ==
    IF FailureHasAuthHint(server_err_) THEN "auth_required"
    ELSE IF FailureIsTimeout(e, server_err_) THEN "timeout"
    ELSE IF has_stacktrace(server_err_) THEN "crashed" ELSE "startup_error"

FailureStatus(e, server_err_) ==
    IF FailureHasAuthHint(server_err_) THEN "auth_required"
    ELSE IF FailureIsTimeout(e, server_err_) THEN "timeout" ELSE "startup_error"

FailureNotes(server_err_) == IF server_err_ # << >> THEN stderr_notes(server_err_) ELSE << >>

\* next(n for n in notes if n["rule"] == "startup_stacktrace"), or << >> for None
StackNote(ns) ==
    LET hits == { i \in DOMAIN ns : ns[i].rule = "startup_stacktrace" }
    IN  IF hits = { } THEN << >>
        ELSE << ns[CHOOSE i \in hits : \A j \in hits : i <= j] >>

FailureError(e, server_err_) ==
    LET is_timeout == FailureIsTimeout(e, server_err_)
        stack_note == StackNote(FailureNotes(server_err_))
    IN  [ kind |-> "mcp", name |-> "initialize",
          rule |-> IF is_timeout THEN "timeout" ELSE "error",
          snippet |-> IF is_timeout THEN << "Timed out after Ns" >>
                      ELSE IF stack_note # << >> /\ stack_note[1].snippet # << >>
                           THEN stack_note[1].snippet
                           ELSE << "str(exc)" >> ]

FailureReport(e, server_err_) ==
    _build_report("unknown",
                  [ tools |-> FALSE, resources |-> FALSE, prompts |-> FALSE ],
                  FailureStatus(e, server_err_),
                  << >>, << >>, << >>, << >>, << >>,
                  FailureNotes(server_err_), ZeroRisk,
                  << FailureError(e, server_err_) >>)

\* The user-facing message, named by its cause.
FailureMessage(e, server_err_) ==
    IF FailureIsTimeout(e, server_err_) THEN "timed out"
    ELSE IF FailureHasAuthHint(server_err_) THEN "authentication required"
    ELSE IF StackNote(FailureNotes(server_err_)) # << >> THEN "server crashed"
    ELSE "error"

(***************************************************************************)
(* What the probed server may do.                                          *)
(***************************************************************************)
ToolUniverse ==
    { [ name |-> << "get", "_", "item" >>, description |-> << "fetch", " ", "item" >> ],
      [ name |-> << "delete" >>, description |-> << "ignore", " ", "instructions" >> ],
      [ name |-> << "clear" >>, description |-> << >> ] }

ResourceUniverse == { << "res://a" >>, << "res://b" >> }

TemplateUniverse == { << "tpl://a" >>, << "tpl://b" >> }

PromptUniverse ==
    { [ name |-> << "draft" >>, arguments |-> << >>, description |-> << "leak" >> ],
      [ name |-> << "ask" >>, arguments |-> << "topic" >>, description |-> << >> ] }

\* What the server writes to stderr during the probe.
DiagnosticTexts ==
    { << >>,
      << "\n" >>,
      << "item" >>,
      << "unauthorized" >>,
      << "login", "\n", "required" >>,
      << "TypeError:" >>,
      << "Fatal", " ", "error", "\n" >>,
      << "Fatal", "\n", "error" >>,
      << "unauthorized", "\n", "TypeError:" >> }

\* How a transport call awaited under asyncio.wait_for can end.
Outcomes == { "ok", "timeout", "error", "cancelled" }

\* The exception types session.initialize() raises on a semantic or stream error.
ErrorTypes == { "McpError", "BrokenResourceError", "ClosedResourceError" }

\* The exception another task of the same task group may add to a group.
SiblingTypes == { "McpError", "BrokenResourceError" }

\* Leaving a task-group context with an exception in flight: it passes through
\* unchanged, or leaves wrapped in an exception group, alone or beside the
\* exception of a sibling task.
Wraps(e) ==
    { e, Group(<< e >>) }
    \cup { Group(<< Leaf(x), e >>) : x \in SiblingTypes }
    \cup { Group(<< e, Leaf(x) >>) : x \in SiblingTypes }

Stages ==
    << "initialize", "list_tools", "list_resources", "list_resource_templates",
       "list_prompts" >>

(***************************************************************************)
(* main() and inspect().                                                   *)
(***************************************************************************)
Init ==
    /\ pc = "spawn"
    /\ quiet \in BOOLEAN
    /\ include_signals \in BOOLEAN
    /\ calls = << >>
    /\ has_tools = FALSE /\ has_resources = FALSE /\ has_prompts = FALSE
    /\ status = "ok" /\ errors = << >> /\ notes = << >>
    /\ tools = << >> /\ risk = ZeroRisk
    /\ resources = << >> /\ templates = << >> /\ prompts = << >>
    /\ exc = NoExc
    /\ session = "none" /\ transport = "none"
    /\ errlog = "open"
    /\ errbuf = << >>
    /\ server_err = << >>
    /\ report = NoReport
    /\ error_message = "none"
    /\ emitted = FALSE
    /\ exit_code = -1
    /\ escalated = << >>
    /\ arg = << >> /\ ret = << >>

\* The parameters and locals of inspect() die with its frame.
FrameGone ==
    /\ has_tools' = FALSE /\ has_resources' = FALSE /\ has_prompts' = FALSE
    /\ status' = "ok" /\ errors' = << >> /\ notes' = << >>
    /\ tools' = << >> /\ risk' = ZeroRisk
    /\ resources' = << >> /\ templates' = << >> /\ prompts' = << >>
    /\ include_signals' = FALSE

FrameUnchanged ==
    UNCHANGED << has_tools, has_resources, has_prompts, status, errors, notes,
                 tools, risk, resources, templates, prompts, include_signals >>

MainUnchanged ==
    UNCHANGED << quiet, errlog, errbuf, server_err, error_message, emitted, exit_code,
                 escalated, arg, ret >>

\* The log of transport calls: the call, how it ended, and for a successful
\* initialize the capabilities the server declared.
Log(name, outcome) ==
    Append(calls, [ name |-> name, outcome |-> outcome, declared |-> { } ])

LogInitialized(t_, r_, p_) ==
    Append(calls, [ name |-> "initialize", outcome |-> "ok",
                    declared |-> { c \in { "tools", "resources", "prompts" } :
                                    \/ (c = "tools" /\ t_)
                                    \/ (c = "resources" /\ r_)
                                    \/ (c = "prompts" /\ p_) } ])

\* The stage that follows the tools stage / the resources stage.
AfterResources == IF has_prompts THEN "list_prompts" ELSE "finish"

\* Without the "if has_resources:".
AfterTools_Ungated == "list_resources"

AfterTools == IF has_resources THEN "list_resources" ELSE AfterResources

\* The exception is swallowed and the probe goes on with the tool listing.
Raise_GoesOn(e) ==
    /\ exc' = e
    /\ pc' = "list_tools"
    /\ FrameGone
    /\ UNCHANGED << report, session, transport >>

\* The exception reaches main() without passing the exits of the two blocks.
Raise_SkipsExits(e) ==
    /\ exc' = e
    /\ pc' = "raised"
    /\ FrameGone
    /\ UNCHANGED << report, session, transport >>

\* An exception leaves the body of the two "async with" blocks.
Raise(e) ==
    /\ exc' = e
    /\ pc' = "session_exit"
    /\ FrameGone
    /\ UNCHANGED << report, session, transport >>

\* stdio_client / ClientSession are entered: the process is spawned, or the
\* spawn fails (no such command) before any call is made.
Spawn ==
    /\ pc = "spawn"
    /\ \/ /\ transport' = "open" /\ session' = "open"
          /\ pc' = "initialize"
          /\ UNCHANGED exc
          /\ FrameUnchanged
       \/ /\ exc' = Leaf("OSError")
          /\ pc' = "raised"
          /\ FrameGone
          /\ UNCHANGED << transport, session >>
    /\ UNCHANGED << calls, report >>
    /\ MainUnchanged

\* result = await asyncio.wait_for(session.initialize(), timeout=timeout_s)
Initialize ==
    /\ pc = "initialize"
    /\ \E outcome \in Outcomes :
        /\ \/ /\ outcome = "ok"
              /\ has_tools' \in BOOLEAN
              /\ has_resources' \in BOOLEAN
              /\ has_prompts' \in BOOLEAN
              /\ calls' = LogInitialized(has_tools', has_resources', has_prompts')
              /\ pc' = "list_tools"
              /\ UNCHANGED << exc, report, session, transport, status, errors, notes,
                              tools, risk, resources, templates, prompts,
                              include_signals >>
           \/ /\ outcome = "timeout"
              /\ calls' = Log("initialize", outcome)
              /\ Raise(Leaf("TimeoutError"))
           \/ /\ outcome = "error"
              /\ calls' = Log("initialize", outcome)
              /\ \E ty \in ErrorTypes : Raise(Leaf(ty))
           \/ /\ outcome = "cancelled"
              /\ calls' = Log("initialize", outcome)
              /\ Raise(Leaf("CancelledError"))
    /\ MainUnchanged

\* A failed list_tools is not caught.
ToolsStage_FailureRaises(outcome, tools_raw) ==
    /\ calls' = Log("list_tools", outcome)
    /\ \/ /\ outcome = "ok"
          /\ tools' = LET ts == [ i \in DOMAIN tools_raw |-> _tool_dict(tools_raw[i]) ]
                       IN  SortBy(ts, [ a \in Range(ts) |-> [ b \in Range(ts) |-> ToolLess(a, b) ] ])
          /\ risk' = count_risks(tools')
          /\ pc' = AfterTools
          /\ UNCHANGED << status, errors >>
          /\ UNCHANGED << has_tools, has_resources, has_prompts, notes, resources,
                          templates, prompts, include_signals, exc, report, session,
                          transport >>
       \/ /\ outcome = "timeout"
          /\ Raise(Leaf("TimeoutError"))
       \/ /\ outcome = "error"
          /\ Raise(Leaf("McpError"))
       \/ /\ outcome = "cancelled"
          /\ Raise(Leaf("CancelledError"))

\* The tools stage of inspect(): try / except asyncio.TimeoutError / except Exception.
\* A failure that is no Exception (a cancellation) is not caught.
ToolsStage(outcome, tools_raw) ==
    /\ calls' = Log("list_tools", outcome)
    /\ \/ /\ outcome = "ok"
          /\ tools' = LET ts == [ i \in DOMAIN tools_raw |-> _tool_dict(tools_raw[i]) ]
                       IN  SortBy(ts, [ a \in Range(ts) |-> [ b \in Range(ts) |-> ToolLess(a, b) ] ])
          /\ risk' = count_risks(tools')
          /\ pc' = AfterTools
          /\ UNCHANGED << status, errors >>
          /\ UNCHANGED << has_tools, has_resources, has_prompts, notes, resources,
                          templates, prompts, include_signals, exc, report, session,
                          transport >>
       \/ /\ outcome \in { "timeout", "error" }
          /\ status' = _mark_partial(status)
          /\ errors' = Append(errors, Note("list_tools", outcome))
          /\ tools' = << >>
          /\ risk' = count_risks(tools')
          /\ pc' = AfterTools
          /\ UNCHANGED << has_tools, has_resources, has_prompts, notes, resources,
                          templates, prompts, include_signals, exc, report, session,
                          transport >>
       \/ /\ outcome = "cancelled"
          /\ Raise(Leaf("CancelledError"))

\* The entries the server may still return.
Room == MaxItems - (Len(tools) + Len(resources) + Len(templates) + Len(prompts))

ListTools ==
    /\ pc = "list_tools"
    /\ \E outcome \in Outcomes :
       \E tools_raw \in IF outcome = "ok" THEN BoundedSeq(ToolUniverse, Room)
                        ELSE { << >> } :
            ToolsStage(outcome, tools_raw)
    /\ MainUnchanged

\* A timeout of an optional call is not caught.
OptionalFailure_TimeoutRaises(name, outcome, next) ==
    \/ /\ outcome = "error"
       /\ status' = _mark_partial(status)
       /\ notes' = Append(notes, Note(name, outcome))
       /\ pc' = next
       /\ UNCHANGED << has_tools, has_resources, has_prompts, errors, tools, risk,
                       resources, templates, prompts, include_signals, exc, report,
                       session, transport >>
    \/ /\ outcome = "timeout"
       /\ Raise(Leaf("TimeoutError"))
    \/ /\ outcome = "cancelled"
       /\ Raise(Leaf("CancelledError"))

\* A failed optional call is recorded as an Error.
OptionalFailure_AsError(name, outcome, next) ==
    \/ /\ outcome \in { "timeout", "error" }
       /\ status' = _mark_partial(status)
       /\ errors' = Append(errors, Note(name, outcome))
       /\ pc' = next
       /\ UNCHANGED << has_tools, has_resources, has_prompts, notes, tools, risk,
                       resources, templates, prompts, include_signals, exc, report,
                       session, transport >>
    \/ /\ outcome = "cancelled"
       /\ Raise(Leaf("CancelledError"))

\* An optional call that failed: try / except asyncio.TimeoutError / except
\* Exception record a Note and escalate; a cancellation is not caught.
OptionalFailure(name, outcome, next) ==
    \/ /\ outcome \in { "timeout", "error" }
       /\ status' = _mark_partial(status)
       /\ notes' = Append(notes, Note(name, outcome))
       /\ pc' = next
       /\ UNCHANGED << has_tools, has_resources, has_prompts, errors, tools, risk,
                       resources, templates, prompts, include_signals, exc, report,
                       session, transport >>
    \/ /\ outcome = "cancelled"
       /\ Raise(Leaf("CancelledError"))

OptionalSuccess(next) ==
    /\ pc' = next
    /\ UNCHANGED << has_tools, has_resources, has_prompts, status, errors, notes,
                    tools, risk, include_signals, exc, report, session, transport >>

ListResources ==
    /\ pc = "list_resources"
    /\ \E outcome \in Outcomes :
        /\ calls' = Log("list_resources", outcome)
        /\ IF outcome = "ok"
           THEN /\ OptionalSuccess("list_resource_templates")
                /\ resources' \in BoundedSeq(ResourceUniverse, Room)
                /\ UNCHANGED << templates, prompts >>
           ELSE OptionalFailure("list_resources", outcome, "list_resource_templates")
    /\ MainUnchanged

ListResourceTemplates ==
    /\ pc = "list_resource_templates"
    /\ \E outcome \in Outcomes :
        /\ calls' = Log("list_resource_templates", outcome)
        /\ IF outcome = "ok"
           THEN /\ OptionalSuccess(AfterResources)
                /\ templates' \in BoundedSeq(TemplateUniverse, Room)
                /\ UNCHANGED << resources, prompts >>
           ELSE OptionalFailure("list_resource_templates", outcome, AfterResources)
    /\ MainUnchanged

ListPrompts ==
    /\ pc = "list_prompts"
    /\ \E outcome \in Outcomes :
        /\ calls' = Log("list_prompts", outcome)
        /\ IF outcome = "ok"
           THEN /\ OptionalSuccess("finish")
                /\ prompts' \in BoundedSeq(PromptUniverse, Room)
                /\ UNCHANGED << resources, templates >>
           ELSE OptionalFailure("list_prompts", outcome, "finish")
    /\ MainUnchanged

\* The rest of inspect(): sort, scan, build the report.
InspectResult ==
    LET resource_uris == SortBy(resources, [ a \in Range(resources) |-> [ b \in Range(resources) |-> SeqLess(a, b) ] ])
        template_uris == SortBy(templates, [ a \in Range(templates) |-> [ b \in Range(templates) |-> SeqLess(a, b) ] ])
        ps == [ i \in DOMAIN prompts |-> _prompt_dict(prompts[i]) ]
        prompts_info == SortBy(ps, [ a \in Range(ps) |-> [ b \in Range(ps) |-> PromptLess(a, b) ] ])
        signals == IF include_signals
                   THEN collect_signals(tools, resource_uris, template_uris, prompts_info)
                   ELSE << >>
    IN  _build_report("server",
                      [ tools |-> has_tools, resources |-> has_resources,
                        prompts |-> has_prompts ],
                      status, tools, resource_uris, template_uris, prompts_info,
                      signals, SortBy(notes, [ a \in Range(notes) |-> [ b \in Range(notes) |-> NoteLess(a, b) ] ]),
                      risk, errors)

\* The return statement is reached: the report is built and the frame is left
\* through the two "async with" exits.
Finish ==
    /\ pc = "finish"
    /\ report' = InspectResult
    /\ pc' = "session_exit"
    /\ FrameGone
    /\ UNCHANGED << calls, exc, session, transport >>
    /\ MainUnchanged

\* "async with ClientSession(...)" is left.
SessionExit ==
    /\ pc = "session_exit"
    /\ session' = "closed"
    /\ exc' \in IF exc = NoExc THEN { NoExc } ELSE Wraps(exc)
    /\ pc' = "transport_exit"
    /\ UNCHANGED << calls, report, transport >>
    /\ FrameUnchanged /\ MainUnchanged

\* "async with stdio_client(...)" is left: the process is terminated and
\* inspect() returns or raises.
TransportExit ==
    /\ pc = "transport_exit"
    /\ transport' = "closed"
    /\ exc' \in IF exc = NoExc THEN { NoExc } ELSE Wraps(exc)
    /\ pc' = IF exc = NoExc THEN "returned" ELSE "raised"
    /\ UNCHANGED << calls, report, session >>
    /\ FrameUnchanged /\ MainUnchanged

\* What the capture file holds when main() reads it back: nothing without a
\* capture file (--quiet), else what the server wrote.
Captured == IF quiet THEN { << >> } ELSE DiagnosticTexts

\* main(), inspect() returned: the report is post-processed and rendered, the
\* finally block closes the capture stream and the report is emitted.  When
\* print() raises (stdout closed, or text it cannot encode) the except block
\* runs instead.
MainReturned ==
    /\ pc = "returned"
    /\ \E text \in Captured, rendered \in BOOLEAN :
        /\ errbuf' = text
        /\ server_err' = _read_captured_stderr(quiet, text)
        /\ IF rendered
           THEN /\ report' = _postprocess_success(report, server_err')
                /\ exit_code' = 0
                /\ UNCHANGED << exc, error_message >>
           ELSE /\ exc' = Leaf("OSError")
                /\ report' = FailureReport(exc', server_err')
                /\ error_message' = FailureMessage(exc', server_err')
                /\ exit_code' = 1
    /\ emitted' = TRUE
    /\ errlog' = "closed"
    /\ pc' = "done"
    /\ UNCHANGED << calls, session, transport, quiet, escalated, arg, ret >>
    /\ FrameUnchanged

\* main(), inspect() raised: except BaseException builds the failure report and
\* the message, emits the report and exits 1; finally closes the capture stream.
MainRaised ==
    /\ pc = "raised"
    /\ \E text \in Captured :
        /\ errbuf' = text
        /\ server_err' = _read_captured_stderr(quiet, text)
        /\ report' = FailureReport(exc, server_err')
        /\ error_message' = FailureMessage(exc, server_err')
    /\ emitted' = TRUE
    /\ exit_code' = 1
    /\ errlog' = "closed"
    /\ pc' = "done"
    /\ UNCHANGED << calls, exc, session, transport, quiet, escalated, arg, ret >>
    /\ FrameUnchanged

Next ==
    \/ Spawn
    \/ Initialize
    \/ ListTools
    \/ ListResources
    \/ ListResourceTemplates
    \/ ListPrompts
    \/ Finish
    \/ SessionExit
    \/ TransportExit
    \/ MainReturned
    \/ MainRaised

Spec == Init /\ [][Next]_vars

\* A probe run with --no-signals.
InitLive == Init /\ ~include_signals

\* One probe runs on its own event loop and every transport call is bounded by
\* wait_for: a step that can be taken is taken.
SpecLive == InitLive /\ [][Next]_vars /\ WF_vars(Next)

(***************************************************************************)
(* _mark_partial applied along a run of soft failures, from any status.    *)
(***************************************************************************)
MaxSoftFailures == 2

Statuses == { "ok", "partial", "auth_gated", "auth_required", "timeout", "startup_error" }

InitEscalate ==
    /\ pc = "escalate"
    /\ status \in Statuses
    /\ escalated = << status >>
    /\ arg = << >> /\ ret = << >>
    /\ quiet = FALSE /\ include_signals = FALSE
    /\ calls = << >>
    /\ has_tools = FALSE /\ has_resources = FALSE /\ has_prompts = FALSE
    /\ errors = << >> /\ notes = << >>
    /\ tools = << >> /\ risk = ZeroRisk
    /\ resources = << >> /\ templates = << >> /\ prompts = << >>
    /\ exc = NoExc
    /\ session = "open" /\ transport = "open"
    /\ errlog = "open"
    /\ errbuf = << >>
    /\ server_err = << >>
    /\ report = NoReport
    /\ error_message = "none"
    /\ emitted = FALSE
    /\ exit_code = -1

\* status = _mark_partial(status), as every except clause of inspect() does.
Escalate ==
    /\ pc = "escalate"
    /\ Len(escalated) <= MaxSoftFailures
    /\ \E name \in { Stages[i] : i \in 2..5 }, outcome \in { "timeout", "error" } :
        calls' = Log(name, outcome)
    /\ status' = _mark_partial(status)
    /\ escalated' = Append(escalated, status')
    /\ UNCHANGED << pc, quiet, include_signals, has_tools, has_resources, has_prompts,
                    errors, notes, tools, risk, resources, templates, prompts, exc,
                    session, transport, errlog, server_err, report, errbuf,
                    error_message, emitted, exit_code, arg, ret >>

SpecEscalate == InitEscalate /\ [][Escalate]_vars

(***************************************************************************)
(* Functions applied on their own, to arguments drawn from bounded sets.   *)
(* Parked: main() is not running.                                          *)
(***************************************************************************)
Parked ==
    /\ quiet = FALSE /\ include_signals = FALSE
    /\ calls = << >>
    /\ has_tools = FALSE /\ has_resources = FALSE /\ has_prompts = FALSE
    /\ status = "ok" /\ errors = << >> /\ notes = << >>
    /\ tools = << >> /\ risk = ZeroRisk
    /\ resources = << >> /\ templates = << >> /\ prompts = << >>
    /\ exc = NoExc
    /\ session = "none" /\ transport = "none"
    /\ errlog = "closed"
    /\ errbuf = << >>
    /\ server_err = << >>
    /\ report = NoReport
    /\ error_message = "none"
    /\ emitted = FALSE
    /\ exit_code = -1
    /\ escalated = << >>

ParkedUnchanged ==
    UNCHANGED << quiet, include_signals, calls, has_tools, has_resources, has_prompts,
                 status, errors, notes, tools, risk, resources, templates, prompts,
                 exc, session, transport, errlog, server_err, report, errbuf,
                 error_message, emitted, exit_code, escalated >>

(***************************************************************************)
(* classify_tool on names and descriptions made of verbs of the three      *)
(* sets, another word and the separators.                                  *)
(***************************************************************************)
MaxNameLen == 3
MaxDescLen == 1

ClassifyTokens == { "delete", "update", "get", "item", "_", "-", " " }

InitClassify ==
    /\ pc = "classify"
    /\ arg \in BoundedSeq(ClassifyTokens, MaxNameLen) \X BoundedSeq(ClassifyTokens, MaxDescLen)
    /\ ret = << >>
    /\ Parked

Classify ==
    /\ pc = "classify"
    /\ ret' = classify_tool(arg[1], arg[2])
    /\ pc' = "classified"
    /\ UNCHANGED arg
    /\ ParkedUnchanged

SpecClassify == InitClassify /\ [][Classify]_vars

(***************************************************************************)
(* collect_signals on tools and prompts drawn from bounded sets, beside    *)
(* the same call on the tools in another order with the rule table in      *)
(* another order.                                                          *)
(***************************************************************************)
MaxSubjects == 2

\* Two tools of one name with different matching texts, a tool matching two rules,
\* a tool matching none.
ScanTools ==
    { [ name |-> << "ask" >>, description |-> << "steal" >> ],
      [ name |-> << "ask" >>, description |-> << "leak" >> ],
      [ name |-> << "item" >>,
        description |-> << "ignore", " ", "system", " ", "prompt" >> ],
      [ name |-> << "get" >>, description |-> << "item" >> ] }

ScanPrompts ==
    { << >>,
      << [ name |-> << "draft" >>, arguments |-> << >>, description |-> << "leak" >> ] >> }

Rotate(s, k) == [ i \in DOMAIN s |-> s[((i + k - 1) % Len(s)) + 1] ]
Reverse(s) == [ i \in DOMAIN s |-> s[Len(s) + 1 - i] ]

\* The rule table in other orders: its rotations and its reversal.
TableOrders ==
    { Rotate(SUSPICIOUS_PATTERNS, k) : k \in 0..(Len(SUSPICIOUS_PATTERNS) - 1) }
    \cup { Reverse(SUSPICIOUS_PATTERNS) }

Permuted(s, perm) == [ i \in DOMAIN s |-> s[perm[i]] ]

InitScan ==
    /\ pc = "scan"
    /\ \E ts \in BoundedSeq(ScanTools, MaxSubjects), ps \in ScanPrompts :
       \E perm \in Permutations(DOMAIN ts), table \in TableOrders :
            arg = [ tools |-> ts, prompts |-> ps, perm |-> perm, table |-> table ]
    /\ ret = << >>
    /\ Parked

Scan ==
    /\ pc = "scan"
    /\ ret' = << collect_signals(arg.tools, << >>, << >>, arg.prompts),
                 CollectTable(arg.table, Permuted(arg.tools, arg.perm), << >>, << >>,
                              arg.prompts) >>
    /\ pc' = "scanned"
    /\ UNCHANGED arg
    /\ ParkedUnchanged

SpecScan == InitScan /\ [][Scan]_vars

(***************************************************************************)
(* The snippet of a signal, on texts written one character a token, so     *)
(* that the slice text[:200] counts characters.                            *)
(***************************************************************************)
MaxTextLen == 202

InitSnippet ==
    /\ pc = "snippet"
    /\ \E n \in 0..MaxTextLen, c \in { "a", " " } : arg = [ i \in 1..n |-> c ]
    /\ ret = << >>
    /\ Parked

Snippet ==
    /\ pc = "snippet"
    /\ ret' = SignalSnippet(arg)
    /\ pc' = "snipped"
    /\ UNCHANGED arg
    /\ ParkedUnchanged

SpecSnippet == InitSnippet /\ [][Snippet]_vars

\* len() of a text: the characters of its tokens.
RECURSIVE CharLenIn(_, _, _)
CharLenIn(t, lo, hi) ==
    IF lo > hi THEN 0
    ELSE IF lo = hi THEN Len(t[lo])
    ELSE LET mid == (lo + hi) \div 2
         IN  CharLenIn(t, lo, mid) + CharLenIn(t, mid + 1, hi)

CharLen(t) == CharLenIn(t, 1, Len(t))

(***************************************************************************)
(* diff_reports.  The text it returns is the sequence of its lines, a line *)
(* the tuple of its parts: << "+", name, risk >>, << "-", name, risk >>,   *)
(* << "~", name, old, new >> in the Tools section, << "+", uri >> and      *)
(* << "-", uri >> in the others, << >> for an empty line.                  *)
(***************************************************************************)
\* sorted(S) of a set of texts.
SortedSet(S) ==
    [ k \in 1..Cardinality(S) |->
        CHOOSE x \in S : Cardinality({ y \in S : SeqLess(y, x) }) = k - 1 ]

\* tool_map: {t["name"]: t for t in tools}; a repeated name keeps its last tool.
tool_map(r) ==
    [ n \in { r.tools[i].name : i \in DOMAIN r.tools } |->
        r.tools[CHOOSE i \in DOMAIN r.tools :
                    /\ r.tools[i].name = n
                    /\ \A j \in DOMAIN r.tools : r.tools[j].name = n => j <= i] ]

\* Reports what was added and never what was removed.
list_diff_NoRemoved(before_list, after_list) ==
    << SortedSet(Range(after_list) \ Range(before_list)), << >> >>

\* list_diff returns (added, removed), each sorted.
list_diff(before_list, after_list) ==
    << SortedSet(Range(after_list) \ Range(before_list)),
       SortedSet(Range(before_list) \ Range(after_list)) >>

fmt_risk(r) == << r.risk["write"], r.risk["destructive"], r.risk["read"] >>

\* "\n".join(lines).rstrip(): the empty lines at the end are dropped.
RECURSIVE StripLines(_)
StripLines(lines) ==
    IF lines # << >> /\ lines[Len(lines)] = << >>
    THEN StripLines(SubSeq(lines, 1, Len(lines) - 1)) ELSE lines

\* Every name the two reports share, whatever its risk.
changed_risk_Shared(before_tools, after_tools) ==
    SortedSet(DOMAIN before_tools \cap DOMAIN after_tools)

\* changed_risk: the names of both reports whose risk differs, sorted.
changed_risk(before_tools, after_tools) ==
    SortedSet({ n \in DOMAIN before_tools \cap DOMAIN after_tools :
                    before_tools[n].risk # after_tools[n].risk })

diff_reports(before, after) ==
    LET before_tools == tool_map(before)
        after_tools == tool_map(after)
        added == SortedSet(DOMAIN after_tools \ DOMAIN before_tools)
        removed == SortedSet(DOMAIN before_tools \ DOMAIN after_tools)
        changed == changed_risk(before_tools, after_tools)
        res == list_diff(before.resources, after.resources)
        tmpl == list_diff(before.resourceTemplates, after.resourceTemplates)
        before_prompts == SortedSet({ before.prompts[i].name : i \in DOMAIN before.prompts })
        after_prompts == SortedSet({ after.prompts[i].name : i \in DOMAIN after.prompts })
        pr == list_diff(before_prompts, after_prompts)
        head == << << "Diff" >>, << >>,
                   << "Before:", before.server >> \o fmt_risk(before),
                   << "After:", after.server >> \o fmt_risk(after), << >> >>
        tools_section ==
            IF added # << >> \/ removed # << >> \/ changed # << >>
            THEN << << "Tools:" >> >>
                 \o [ i \in DOMAIN added |-> << "+", added[i], after_tools[added[i]].risk >> ]
                 \o [ i \in DOMAIN removed |->
                        << "-", removed[i], before_tools[removed[i]].risk >> ]
                 \o [ i \in DOMAIN changed |->
                        << "~", changed[i], before_tools[changed[i]].risk,
                           after_tools[changed[i]].risk >> ]
                 \o << << >> >>
            ELSE << >>
        resources_section ==
            IF res[1] # << >> \/ res[2] # << >> \/ tmpl[1] # << >> \/ tmpl[2] # << >>
            THEN << << "Resources:" >> >>
                 \o [ i \in DOMAIN res[1] |-> << "+", res[1][i] >> ]
                 \o [ i \in DOMAIN res[2] |-> << "-", res[2][i] >> ]
                 \o [ i \in DOMAIN tmpl[1] |-> << "+", tmpl[1][i] >> ]
                 \o [ i \in DOMAIN tmpl[2] |-> << "-", tmpl[2][i] >> ]
                 \o << << >> >>
            ELSE << >>
        prompts_section ==
            IF pr[1] # << >> \/ pr[2] # << >>
            THEN << << "Prompts:" >> >>
                 \o [ i \in DOMAIN pr[1] |-> << "+", pr[1][i] >> ]
                 \o [ i \in DOMAIN pr[2] |-> << "-", pr[2][i] >> ]
                 \o << << >> >>
            ELSE << >>
        sections == tools_section \o resources_section \o prompts_section
    IN  StripLines(head \o sections
                   \o IF sections = << >> THEN << << "No changes detected." >>, << >> >>
                      ELSE << >>)

MaxDiffTools == 2

\* The tools of the reports compared: one name at two tiers, and another name.
DiffTools ==
    { [ name |-> << "t1" >>, risk |-> "write" ],
      [ name |-> << "t1" >>, risk |-> "destructive" ],
      [ name |-> << "t2" >>, risk |-> "read" ] }

DiffUris == { << >>, << << "res://a" >> >> }
DiffTemplates == { << >>, << << "tpl://a" >> >> }
DiffPrompts == { << >>, << [ name |-> << "ask" >> ] >> }

\* A report as diff_reports reads it.
DiffReports ==
    { [ server |-> "s", tools |-> ts, risk |-> count_risks(ts), resources |-> rs,
        resourceTemplates |-> tp, prompts |-> ps ] :
        ts \in BoundedSeq(DiffTools, MaxDiffTools), rs \in DiffUris,
        tp \in DiffTemplates, ps \in DiffPrompts }

InitDiff ==
    /\ pc = "diff"
    /\ arg \in DiffReports \X DiffReports
    /\ ret = << >>
    /\ Parked

Diff ==
    /\ pc = "diff"
    /\ ret' = diff_reports(arg[1], arg[2])
    /\ pc' = "diffed"
    /\ UNCHANGED arg
    /\ ParkedUnchanged

SpecDiff == InitDiff /\ [][Diff]_vars

(***************************************************************************)
(* _stderr_excerpt and the slice stderr_notes takes of it, on texts whose  *)
(* tokens are single characters.                                           *)
(***************************************************************************)
MaxExcerptLen == 903

\* The lengths of the diagnostic texts: around the two limits.
ExcerptLens == { 0, 1, 599, 600, 601, 602 } \cup 899..MaxExcerptLen

\* Where the line break of a text stands; 0 for a text of one line.
ExcerptBreaks == 0..205

\* A text of n characters that ends in "z", with a line break at position nl.
ExcerptText(n, nl) ==
    [ i \in 1..n |-> IF i = nl THEN "\n" ELSE IF i = n THEN "z" ELSE "a" ]

InitExcerpt ==
    /\ pc = "excerpt"
    /\ \E n \in ExcerptLens, nl \in ExcerptBreaks : arg = ExcerptText(n, nl)
    /\ ret = << >>
    /\ Parked

\* The snippets stderr_notes takes for an auth_hint and a startup_stacktrace note.
Excerpt ==
    /\ pc = "excerpt"
    /\ ret' = << Prefix(_stderr_excerpt(arg, 600), 600), Prefix(_stderr_excerpt(arg, 900), 900) >>
    /\ pc' = "excerpted"
    /\ UNCHANGED arg
    /\ ParkedUnchanged

SpecExcerpt == InitExcerpt /\ [][Excerpt]_vars

(***************************************************************************)
(* The manifest of a report and the Capabilities section of the diff.  A   *)
(* manifest is the sequence of its entries, sorted by tool, an entry the   *)
(* record of its tool and its operations; a single-action tool has no      *)
(* operations, << >>.  A report without a manifest carries << >>.  The     *)
(* lines of the section are << "+", tool, n, "operations" >>,              *)
(* << "-", tool, n, "operations" >>, << "+", tool >> for a tool without    *)
(* operations under the "now visible" heading,                             *)
(* << "~", tool, n, "operations", m, "operations" >> and, below it,        *)
(* << "added:", names >> and << "removed:", names >>.                      *)
(***************************************************************************)
manifest_map(m) == [ n \in { m[i].tool : i \in DOMAIN m } |-> m[CHOOSE i \in DOMAIN m : m[i].tool = n] ]

\* "+ tool (n operations)", or "+ tool" alone for a single-action tool.
visible_line(entry) ==
    IF entry.operations = << >> THEN << "+", entry.tool >>
    ELSE << "+", entry.tool, Len(entry.operations), "operations" >>

count_line(sign, entry) == << sign, entry.tool, Len(entry.operations), "operations" >>

\* Every tool of both manifests, whether or not its operations changed.
changed_operations_Every(before_caps, after_caps) ==
    SortedSet(DOMAIN before_caps \cap DOMAIN after_caps)

\* The tools of both manifests whose operation lists differ in length, sorted.
changed_operations(before_caps, after_caps) ==
    SortedSet({ n \in DOMAIN before_caps \cap DOMAIN after_caps :
                    Len(before_caps[n].operations) # Len(after_caps[n].operations) })

\* The count transition of one tool and the operation names added and removed.
transition_lines(b, a) ==
    LET ops_added == SortedSet(Range(a.operations) \ Range(b.operations))
        ops_removed == SortedSet(Range(b.operations) \ Range(a.operations))
    IN  << << "~", a.tool, Len(b.operations), "operations",
              Len(a.operations), "operations" >> >>
        \o (IF ops_added # << >> THEN << << "added:", ops_added >> >> ELSE << >>)
        \o (IF ops_removed # << >> THEN << << "removed:", ops_removed >> >> ELSE << >>)

RECURSIVE Concat(_)
Concat(ss) == IF ss = << >> THEN << >> ELSE Head(ss) \o Concat(Tail(ss))

capabilities_section(before, after) ==
    LET before_caps == manifest_map(before.manifest)
        after_caps == manifest_map(after.manifest)
        added == SortedSet(DOMAIN after_caps \ DOMAIN before_caps)
        removed == SortedSet(DOMAIN before_caps \ DOMAIN after_caps)
        changed == changed_operations(before_caps, after_caps)
    IN  IF before.manifest = << >> /\ after.manifest = << >> THEN << >>
        ELSE IF before.manifest = << >>
        THEN << << "Capabilities (now visible):" >> >>
             \o [ i \in DOMAIN added |-> visible_line(after_caps[added[i]]) ]
             \o << << >> >>
        ELSE IF after.manifest = << >>
        THEN << << "Capabilities:" >> >>
             \o [ i \in DOMAIN removed |-> count_line("-", before_caps[removed[i]]) ]
             \o << << >> >>
        ELSE IF added # << >> \/ removed # << >> \/ changed # << >>
        THEN << << "Capabilities:" >> >>
             \o [ i \in DOMAIN added |-> count_line("+", after_caps[added[i]]) ]
             \o [ i \in DOMAIN removed |-> count_line("-", before_caps[removed[i]]) ]
             \o Concat([ i \in DOMAIN changed |->
                            transition_lines(before_caps[changed[i]],
                                             after_caps[changed[i]]) ])
             \o << << >> >>
        ELSE << >>

\* diff_reports of two reports that may carry a manifest: the Capabilities
\* section follows the other sections, and "No changes detected." stands only
\* when no section does.
diff_reports_capabilities(before, after) ==
    LET base == diff_reports(before, after)
        caps == capabilities_section(before, after)
        kept == SelectSeq(base, LAMBDA l : l # << "No changes detected." >>)
    IN  IF caps = << >> THEN base
        ELSE StripLines(StripLines(kept) \o << << >> >> \o caps)

MaxDiffItems == 2

\* The tools of the reports compared: one name with two descriptions, and another.
CapTools ==
    { [ name |-> << "t1" >>, description |-> << "fetch" >>, risk |-> "write" ],
      [ name |-> << "t1" >>, description |-> << "leak" >>, risk |-> "write" ],
      [ name |-> << "t2" >>, description |-> << "fetch" >>, risk |-> "read" ] }

\* The entries of the manifests compared.
CapEntries ==
    { [ tool |-> << "t1" >>, operations |-> << >> ],
      [ tool |-> << "t1" >>, operations |-> << << "get" >> >> ],
      [ tool |-> << "t1" >>, operations |-> << << "delete" >> >> ],
      [ tool |-> << "t1" >>, operations |-> << << "get" >>, << "delete" >> >> ],
      [ tool |-> << "t2" >>, operations |-> << << "get" >> >> ] }

\* The manifests: at most one entry for a tool, the entries sorted by tool.
CapManifests ==
    { m \in BoundedSeq(CapEntries, MaxDiffItems) :
        \A i, j \in DOMAIN m : i < j => SeqLess(m[i].tool, m[j].tool) }

\* The lists of a report, with at most MaxDiffItems entries in all.
CapShapes ==
    { r \in [ server : { "s" }, tools : BoundedSeq(CapTools, MaxDiffItems),
              resources : BoundedSeq({ << "res://a" >> }, MaxDiffItems),
              resourceTemplates : BoundedSeq({ << "tpl://a" >> }, MaxDiffItems),
              prompts : BoundedSeq({ [ name |-> << "ask" >> ] }, MaxDiffItems),
              manifest : CapManifests ] :
        Len(r.tools) + Len(r.resources) + Len(r.resourceTemplates)
            + Len(r.prompts) + Len(r.manifest) <= MaxDiffItems }

\* A report as the diff reads it.
CapReports ==
    { [ server |-> r.server, tools |-> r.tools, risk |-> count_risks(r.tools),
        resources |-> r.resources, resourceTemplates |-> r.resourceTemplates,
        prompts |-> r.prompts, manifest |-> r.manifest ] : r \in CapShapes }

InitCapDiff ==
    /\ pc = "capdiff"
    /\ arg \in CapReports \X CapReports
    /\ ret = << >>
    /\ Parked

\* The diff both ways round.
CapDiff ==
    /\ pc = "capdiff"
    /\ ret' = << diff_reports_capabilities(arg[1], arg[2]),
                 diff_reports_capabilities(arg[2], arg[1]) >>
    /\ pc' = "capdiffed"
    /\ UNCHANGED arg
    /\ ParkedUnchanged

SpecCapDiff == InitCapDiff /\ [][CapDiff]_vars

(***************************************************************************)
(* The manifest expander.  A decoded JSON value is a record with its kind; *)
(* an object keeps its members in the order of the document, as the        *)
(* sequence of its << key, value >> pairs, each key once.                  *)
(***************************************************************************)
JString(s) == [ kind |-> "string", value |-> s ]
JArray(items) == [ kind |-> "array", items |-> items ]
JObject(members) == [ kind |-> "object", members |-> members ]
JNumber == [ kind |-> "number" ]
JNull == [ kind |-> "null" ]

\* No document.
None == [ kind |-> "none" ]

Keys(obj) == { obj.members[i][1] : i \in DOMAIN obj.members }

Get(obj, key) == obj.members[CHOOSE i \in DOMAIN obj.members : obj.members[i][1] = key][2]

\* Accepts a document whose first tool entry is an object, whatever the others are.
_parse_capabilities_resource_FirstEntry(raw) ==
    IF ~raw.text \/ ~raw.valid THEN None
    ELSE IF raw.value.kind # "object" THEN None
    ELSE IF "tools" \notin Keys(raw.value) THEN None
    ELSE IF Get(raw.value, "tools").kind # "object" THEN None
    ELSE IF /\ Get(raw.value, "tools").members # << >>
            /\ Get(raw.value, "tools").members[1][2].kind # "object" THEN None
    ELSE raw.value

\* parse(raw): the decoded document, or None when raw is not text, is not valid
\* JSON, is not an object, has no "tools" object, or has a tool entry that is not
\* an object.
_parse_capabilities_resource(raw) ==
    IF ~raw.text \/ ~raw.valid THEN None
    ELSE IF raw.value.kind # "object" THEN None
    ELSE IF "tools" \notin Keys(raw.value) THEN None
    ELSE IF Get(raw.value, "tools").kind # "object" THEN None
    ELSE IF \E k \in Keys(Get(raw.value, "tools")) :
                Get(Get(raw.value, "tools"), k).kind # "object" THEN None
    ELSE raw.value

\* bool(value) of a decoded value.
Truthy(v) ==
    CASE v.kind = "string" -> v.value # ""
      [] v.kind = "array" -> v.items # << >>
      [] v.kind = "object" -> v.members # << >>
      [] v.kind = "number" -> TRUE
      [] OTHER -> FALSE

\* A tool is dispatched whenever it lists operations, with or without a dispatch_key.
dispatched_AnyOperations(info) ==
    /\ "operations" \in Keys(info)
    /\ Get(info, "operations").kind = "array"
    /\ Get(info, "operations").items # << >>

\* The tool declares a non-empty dispatch_key and a non-empty list of operations.
dispatched(info) ==
    /\ "dispatch_key" \in Keys(info)
    /\ Truthy(Get(info, "dispatch_key"))
    /\ "operations" \in Keys(info)
    /\ Get(info, "operations").kind = "array"
    /\ Get(info, "operations").items # << >>

\* The entry of one tool: its name, its description when it has one, its
\* operations when it is dispatched.
manifest_entry(name, info) ==
    [ tool |-> name ]
    @@ (IF "description" \in Keys(info)
        THEN [ description |-> Get(info, "description") ] ELSE << >>)
    @@ (IF dispatched(info) THEN [ operations |-> Get(info, "operations").items ] ELSE << >>)

\* expand(document): one entry for each tool, sorted by tool name.
_expand_tool_capabilities(caps) ==
    LET infos == Get(caps, "tools")
        names == [ i \in DOMAIN infos.members |-> infos.members[i][1] ]
        sorted == SortBy(names, [ a \in Range(names) |-> [ b \in Range(names) |-> StrLess(a, b) ] ])
    IN  [ i \in DOMAIN sorted |-> manifest_entry(sorted[i], Get(infos, sorted[i])) ]

MaxManifestTools == 2

\* The tool names of the documents, in an order that is not the alphabetical one.
ManifestNames == { << "t2", "t1", "update", "ask" >>[i] : i \in 1..MaxManifestTools }

\* The members of an object: the pairs given whose value is not Absent, in order.
Absent == [ kind |-> "absent" ]

Present(pairs) == SelectSeq(pairs, LAMBDA p : p[2] # Absent)

\* What a document may hold for a tool.
ToolInfos ==
    { JObject(Present(<< << "description", d >>, << "dispatch_key", k >>,
                         << "operations", o >> >>)) :
        d \in { Absent, JString("x") },
        k \in { Absent, JString(""), JString("action") },
        o \in { Absent, JArray(<< >>), JArray(<< "get" >>), JArray(<< "get", "delete" >>),
                JString("list") } }
    \cup { JString("x") }

\* What a document may hold under "tools".
ToolsValues ==
    { JObject(m) : m \in { s \in BoundedSeq(ManifestNames \X ToolInfos, MaxManifestTools) :
                            \A i, j \in DOMAIN s : i # j => s[i][1] # s[j][1] } }
    \cup { JString("string"), JArray(<< >>) }

\* The resource read: not text at all, text that is not JSON, or a document.
RawManifests ==
    { [ text |-> FALSE, valid |-> FALSE, value |-> JNull ],
      [ text |-> TRUE, valid |-> FALSE, value |-> JNull ] }
    \cup { [ text |-> TRUE, valid |-> TRUE, value |-> v ] :
            v \in { JArray(<< >>), JString("x"), JNumber, JNull,
                    JObject(<< << "version", JString("1.0") >> >>) }
                  \cup { JObject(<< << "tools", t >> >>) : t \in ToolsValues } }

InitManifest ==
    /\ pc = "manifest"
    /\ arg \in RawManifests
    /\ ret = << >>
    /\ Parked

Parse ==
    /\ pc = "manifest"
    /\ ret' = _parse_capabilities_resource(arg)
    /\ pc' = "parsed"
    /\ UNCHANGED arg
    /\ ParkedUnchanged

\* The document read is expanded; without a document there is no manifest.
Expand ==
    /\ pc = "parsed"
    /\ ret # None
    /\ ret' = _expand_tool_capabilities(ret)
    /\ pc' = "expanded"
    /\ UNCHANGED arg
    /\ ParkedUnchanged

SpecManifest == InitManifest /\ [][Parse \/ Expand]_vars

(***************************************************************************)
(* Vocabulary of the properties.                                           *)
(***************************************************************************)
\* inspect() is between two transport calls, its locals alive.
InFrame ==
    pc \in { "list_tools", "list_resources", "list_resource_templates", "list_prompts",
             "finish" }

\* inspect() is being left through the "async with" exits.
Leaving == pc \in { "session_exit", "transport_exit" }

\* inspect() has built its report and nothing was raised: `report` is what it returns.
InspectReturned ==
    /\ pc \in { "session_exit", "transport_exit", "returned" }
    /\ exc = NoExc
    /\ report # NoReport

SuccessDone == pc = "done" /\ exit_code = 0
FatalDone == pc = "done" /\ exit_code = 1

OptionalCalls == { "list_resources", "list_resource_templates", "list_prompts" }

Called(name) == \E i \in DOMAIN calls : calls[i].name = name
OutcomeOf(name) == calls[CHOOSE i \in DOMAIN calls : calls[i].name = name].outcome
Failed(name) == Called(name) /\ OutcomeOf(name) \in { "timeout", "error" }
Declared(c) == calls # << >> /\ c \in calls[1].declared
LastCall == calls[Len(calls)]

InitializeFailed == Len(calls) = 1 /\ calls[1].outcome # "ok"

\* The stage the code turns to after the call `name`.
StageAfter(name) ==
    CASE name = "list_tools" -> AfterTools
      [] name = "list_resources" -> "list_resource_templates"
      [] name = "list_resource_templates" -> AfterResources
      [] name = "list_prompts" -> "finish"

\* The probe went on after its last call: nothing was raised out of inspect().
WentOn ==
    /\ pc # "raised"
    /\ Leaving => exc = NoExc
    /\ InFrame => session = "open" /\ pc = StageAfter(LastCall.name)

NoRisk(rk) == rk["read"] = 0 /\ rk["write"] = 0 /\ rk["destructive"] = 0

NothingEnumerated(rep) ==
    /\ rep.tools = << >> /\ rep.resources = << >>
    /\ rep.resourceTemplates = << >> /\ rep.prompts = << >>

\* The diagnostic texts (as main() reads them back) that hold an authentication
\* hint / a crash signature.
AuthHintTexts ==
    { << "unauthorized" >>, << "login", "\n", "required" >>,
      << "unauthorized", "\n", "TypeError:" >> }
CrashTexts ==
    { << "TypeError:" >>, << "Fatal", " ", "error" >>, << "unauthorized", "\n", "TypeError:" >> }

\* Every optional stage the server declared was attempted.
DeclaredStagesAttempted ==
    /\ Declared("resources") => Called("list_resources") /\ Called("list_resource_templates")
    /\ Declared("prompts") => Called("list_prompts")

NamedCount(records, name) == Cardinality({ k \in DOMAIN records : records[k].name = name })

(***************************************************************************)
(* C1.  After a successful initialize a timeout or error of list_tools is  *)
(* a soft failure: one Error record named list_tools with rule timeout or  *)
(* error, status partial, no tools, all risk counts zero; the probe goes   *)
(* on to the declared later stages and inspect() returns a report.         *)
(***************************************************************************)
C1_ListToolsFailureIsSoft ==
    Failed("list_tools") =>
        /\ InFrame =>
            /\ Len(errors) = 1
            /\ errors[1].kind = "mcp" /\ errors[1].name = "list_tools"
            /\ errors[1].rule = OutcomeOf("list_tools")
            /\ status = "partial"
            /\ tools = << >> /\ NoRisk(risk)
        /\ LastCall.name = "list_tools" => WentOn
        /\ InspectReturned =>
            /\ Len(report.errors) = 1
            /\ report.errors[1].name = "list_tools"
            /\ report.errors[1].rule = OutcomeOf("list_tools")
            /\ report.status = "partial"
            /\ report.tools = << >> /\ NoRisk(report.risk)
            /\ DeclaredStagesAttempted

C1_Witness ==
    /\ pc = "returned" /\ exc = NoExc
    /\ Len(calls) = 5
    /\ calls[2].name = "list_tools" /\ calls[2].outcome = "error"
    /\ report.status = "partial"

(***************************************************************************)
(* C2.  As claimed: a timeout of initialize or of list_tools ends the      *)
(* probe (no later call, fatal path), a timeout of list_resources,         *)
(* list_resource_templates or list_prompts cancels only that call.         *)
(* As amended: only a timeout of initialize ends the probe; a timeout of   *)
(* list_tools, like that of the other list calls, cancels only that call   *)
(* and the session continues.                                              *)
(***************************************************************************)
TimeoutEndsProbe(names) ==
    \A i \in DOMAIN calls :
        calls[i].name \in names /\ calls[i].outcome = "timeout" =>
            /\ i = Len(calls)
            /\ ~InFrame
            /\ exc # NoExc
            /\ pc = "done" => exit_code = 1

TimeoutCancelsOnlyCall(names) ==
    calls # << >> /\ LastCall.name \in names /\ LastCall.outcome = "timeout" => WentOn

C2_Original ==
    /\ TimeoutEndsProbe({ "initialize", "list_tools" })
    /\ TimeoutCancelsOnlyCall(OptionalCalls)

C2_TimeoutScope ==
    /\ TimeoutEndsProbe({ "initialize" })
    /\ TimeoutCancelsOnlyCall({ "list_tools" } \cup OptionalCalls)

C2_Witness ==
    /\ SuccessDone
    /\ Called("list_tools") /\ OutcomeOf("list_tools") = "timeout"
    /\ Called("list_resources") /\ OutcomeOf("list_resources") = "timeout"
    /\ Called("list_prompts")

(***************************************************************************)
(* C3.  list_resources and list_resource_templates are called only if the  *)
(* resources capability was declared and list_prompts only if prompts was; *)
(* a skipped stage leaves no Note, no Error and the status as it was.  As  *)
(* claimed, a tools-only server whose list_tools succeeds ends with status *)
(* ok and no mcp notes.  As amended, it ends with status ok unless it      *)
(* listed no tool and its diagnostic text has an authentication hint: then *)
(* post-processing sets auth_gated.                                        *)
(***************************************************************************)
ToolsOnlyOk ==
    /\ calls # << >> /\ calls[1].outcome = "ok"
    /\ calls[1].declared \subseteq { "tools" }
    /\ Called("list_tools") /\ OutcomeOf("list_tools") = "ok"

C3_CallsAreGated ==
    \A i \in DOMAIN calls :
        /\ calls[i].name \in { "list_resources", "list_resource_templates" }
                => Declared("resources")
        /\ calls[i].name = "list_prompts" => Declared("prompts")

C3_SkipLeavesNoTrace ==
    /\ InFrame =>
        /\ \A k \in DOMAIN notes : Called(notes[k].name)
        /\ \A k \in DOMAIN errors : Called(errors[k].name)
        /\ status = IF \E i \in DOMAIN calls : calls[i].outcome \in { "timeout", "error" }
                    THEN "partial" ELSE "ok"
    /\ InspectReturned /\ ToolsOnlyOk =>
        /\ report.status = "ok"
        /\ report.notes = << >> /\ report.errors = << >>

NoMcpNotes(rep) == \A k \in DOMAIN rep.notes : rep.notes[k].kind # "mcp"

C3_Original ==
    /\ C3_CallsAreGated
    /\ C3_SkipLeavesNoTrace
    /\ SuccessDone /\ ToolsOnlyOk => report.status = "ok" /\ NoMcpNotes(report)

C3_Gating ==
    /\ C3_CallsAreGated
    /\ C3_SkipLeavesNoTrace
    /\ SuccessDone /\ ToolsOnlyOk =>
        /\ NoMcpNotes(report)
        /\ report.status = IF report.tools = << >> /\ server_err \in AuthHintTexts
                           THEN "auth_gated" ELSE "ok"

C3_Witness ==
    /\ SuccessDone /\ ToolsOnlyOk
    /\ calls[1].declared = { "tools" }
    /\ Len(calls) = 2
    /\ report.tools # << >>
    /\ server_err \in AuthHintTexts
    /\ report.status = "ok"

(***************************************************************************)
(* C4.  A timeout or error of an optional call leaves exactly one Note     *)
(* (kind mcp, the call's name, rule timeout or error) and no Error, makes  *)
(* the status partial, and the probe goes on: every declared optional call *)
(* is attempted whatever the others did.                                   *)
(***************************************************************************)
OptionalNotes(ns, errs, st) ==
    \A name \in OptionalCalls :
        /\ NamedCount(ns, name) = IF Failed(name) THEN 1 ELSE 0
        /\ \A k \in DOMAIN ns :
                ns[k].name = name => ns[k].kind = "mcp" /\ ns[k].rule = OutcomeOf(name)
        /\ NamedCount(errs, name) = 0
        /\ Failed(name) => st = "partial"

C4_OptionalFailureIsNote ==
    /\ InFrame => OptionalNotes(notes, errors, status)
    /\ calls # << >> /\ LastCall.name \in OptionalCalls
            /\ LastCall.outcome \in { "timeout", "error" } => WentOn
    /\ InspectReturned =>
        /\ OptionalNotes(report.notes, report.errors, report.status)
        /\ DeclaredStagesAttempted

C4_Witness ==
    /\ InspectReturned
    /\ Failed("list_resources") /\ OutcomeOf("list_resources") = "timeout"
    /\ Called("list_resource_templates") /\ OutcomeOf("list_resource_templates") = "ok"
    /\ Failed("list_prompts") /\ OutcomeOf("list_prompts") = "error"
    /\ Len(report.notes) = 2 /\ report.errors = << >>

(***************************************************************************)
(* C5.  When inspect() returned a report, the final status is auth_gated   *)
(* iff no tool, resource, resource template or prompt was enumerated and   *)
(* the captured diagnostic text has an authentication hint; otherwise it   *)
(* is the status inspect() gave: ok for a server that is simply empty.     *)
(***************************************************************************)
C5_AuthGated ==
    SuccessDone =>
        LET gated == NothingEnumerated(report) /\ server_err \in AuthHintTexts
            soft == \E i \in DOMAIN calls : calls[i].outcome \in { "timeout", "error" }
        IN  report.status = IF gated THEN "auth_gated"
                            ELSE IF soft THEN "partial" ELSE "ok"

C5_Witness ==
    /\ SuccessDone
    /\ Len(calls) = 5 /\ \A i \in DOMAIN calls : calls[i].outcome = "ok"
    /\ NothingEnumerated(report)
    /\ server_err = << "login", "\n", "required" >>
    /\ report.status = "auth_gated"

(***************************************************************************)
(* C6.  On the fatal path the status follows the priority auth hint >      *)
(* stack trace > timeout > error: auth_required when the diagnostic text   *)
(* has an authentication hint, whatever the exception; else startup_error  *)
(* when it has a crash signature; else timeout when the exception is, or   *)
(* an exception group holds at any depth, a timeout, a cancellation or a   *)
(* stream-teardown failure; else startup_error, the status of the generic  *)
(* error.                                                                  *)
(***************************************************************************)
TimeoutLike(ty) ==
    ty \in { "TimeoutError", "CancelledError", "BrokenResourceError", "ClosedResourceError" }

\* The exception, a member of it or a member of a member (its deepest level here).
TimeoutShaped(e) ==
    \/ TimeoutLike(e.type)
    \/ \E i \in DOMAIN e.exceptions :
        \/ TimeoutLike(e.exceptions[i].type)
        \/ \E j \in DOMAIN e.exceptions[i].exceptions :
                TimeoutLike(e.exceptions[i].exceptions[j].type)

C6_FatalStatusPriority ==
    FatalDone =>
        report.status =
            IF server_err \in AuthHintTexts THEN "auth_required"
            ELSE IF server_err \in CrashTexts THEN "startup_error"
            ELSE IF TimeoutShaped(exc) THEN "timeout"
            ELSE "startup_error"

C6_Witness ==
    /\ FatalDone
    /\ exc.type = "ExceptionGroup"
    /\ \A i \in DOMAIN exc.exceptions : ~TimeoutLike(exc.exceptions[i].type)
    /\ TimeoutShaped(exc)
    /\ Len(exc.exceptions) = 2
    /\ server_err = << "item" >>
    /\ report.status = "timeout"

(***************************************************************************)
(* C7.  A crash is never reported as a timeout: on the fatal path, when    *)
(* the diagnostic text has a crash signature, neither the status nor the   *)
(* rule of the Error record is timeout, even for a timeout-shaped          *)
(* exception; with no diagnostic text a timeout-shaped failure of          *)
(* initialize gives status timeout.                                        *)
(***************************************************************************)
C7_CrashIsNotTimeout ==
    FatalDone =>
        /\ server_err \in CrashTexts =>
            /\ report.status # "timeout"
            /\ \A k \in DOMAIN report.errors : report.errors[k].rule # "timeout"
        /\ server_err = << >> /\ InitializeFailed /\ TimeoutShaped(exc) =>
            report.status = "timeout"

C7_Witness ==
    /\ FatalDone
    /\ InitializeFailed /\ calls[1].outcome = "timeout"
    /\ exc = Leaf("TimeoutError")
    /\ server_err = << "TypeError:" >>
    /\ report.status = "startup_error"
    /\ report.errors[1].rule = "error"

(***************************************************************************)
(* C8.  A probe whose initialize timed out or failed still emits a report: *)
(* no tools, resources, resource templates, prompts or signals, all risk   *)
(* counts zero, a status among timeout, auth_required and startup_error,   *)
(* and exactly one Error record, which names initialize.                   *)
(***************************************************************************)
C8_FatalReport ==
    FatalDone /\ InitializeFailed =>
        /\ emitted
        /\ NothingEnumerated(report)
        /\ report.signals = << >>
        /\ NoRisk(report.risk)
        /\ report.status \in { "timeout", "auth_required", "startup_error" }
        /\ Len(report.errors) = 1
        /\ report.errors[1].name = "initialize"

C8_Witness ==
    /\ FatalDone
    /\ InitializeFailed /\ calls[1].outcome = "error"
    /\ exc.type = "McpError"
    /\ server_err = << >>
    /\ report.status = "startup_error"
    /\ emitted

(***************************************************************************)
(* C9.  On a fatal probe the message names the cause the status names:     *)
(* auth_required comes with the authentication-required message, a crash   *)
(* (startup_error with a crash signature) with the server-crashed message, *)
(* timeout with the timed-out message.                                     *)
(***************************************************************************)
C9_MessageNamesCause ==
    FatalDone =>
        /\ report.status = "auth_required" => error_message = "authentication required"
        /\ report.status = "startup_error" /\ server_err \in CrashTexts
                => error_message = "server crashed"
        /\ report.status = "timeout" => error_message = "timed out"

(***************************************************************************)
(* C10.  Escalation never downgrades: escalating s gives partial if s is   *)
(* ok and s otherwise, for each of the six statuses; so along any run of   *)
(* soft failures a second escalation changes nothing, the status never     *)
(* returns to ok, and auth_gated, auth_required, timeout and startup_error *)
(* are never replaced by partial.                                          *)
(***************************************************************************)
C10_EscalationNeverDowngrades ==
    pc = "escalate" =>
        /\ \A i \in 2..Len(escalated) :
            escalated[i] = IF escalated[i - 1] = "ok" THEN "partial" ELSE escalated[i - 1]
        /\ \A i \in 3..Len(escalated) : escalated[i] = escalated[i - 1]
        /\ \A i \in 2..Len(escalated) :
            /\ escalated[i] # "ok"
            /\ escalated[1] \in { "auth_gated", "auth_required", "timeout", "startup_error" }
                    => escalated[i] = escalated[1]
        /\ status = escalated[Len(escalated)]

C10_Witness ==
    /\ pc = "escalate"
    /\ escalated = << "auth_gated", "auth_gated", "auth_gated" >>

(***************************************************************************)
(* C11.  The status is a closed enumeration: the status inspect() keeps    *)
(* and the status of every report, on the success path, after soft         *)
(* failures and on the fatal path, is one of ok, partial, auth_gated,      *)
(* auth_required, timeout, startup_error.                                  *)
(***************************************************************************)
C11_StatusIsClosed ==
    /\ status \in Statuses
    /\ report # NoReport => report.status \in Statuses
    /\ SuccessDone => report.status \in { "ok", "partial", "auth_gated" }
    /\ FatalDone => report.status \in { "auth_required", "timeout", "startup_error" }

C11_Witness ==
    /\ FatalDone
    /\ emitted
    /\ server_err \in CrashTexts
    /\ server_err \notin AuthHintTexts
    /\ calls # << >> /\ LastCall.name = "list_prompts"
    /\ report.status = "startup_error"

(***************************************************************************)
(* C12.  The lists of every emitted report are ordered: tools by risk      *)
(* priority (destructive 0, write 1, read 2) and then by name, signals and *)
(* notes by (kind, name, rule), resources and resource templates           *)
(* lexicographically, prompts by name; the order of the notes holds after  *)
(* the notes of the diagnostic text are merged in.                         *)
(***************************************************************************)
SeqLeq(a, b) == a = b \/ SeqLess(a, b)

RiskRank(r) == CASE r = "destructive" -> 0 [] r = "write" -> 1 [] r = "read" -> 2

ToolLeq(a, b) ==
    \/ RiskRank(a.risk) < RiskRank(b.risk)
    \/ (a.risk = b.risk /\ SeqLeq(a.name, b.name))

SignalLeq(a, b) ==
    \/ StrLess(a.kind, b.kind)
    \/ (a.kind = b.kind /\ SeqLess(a.name, b.name))
    \/ (a.kind = b.kind /\ a.name = b.name /\ (a.rule = b.rule \/ StrLess(a.rule, b.rule)))

NoteLeq(a, b) ==
    \/ StrLess(a.kind, b.kind)
    \/ (a.kind = b.kind /\ StrLess(a.name, b.name))
    \/ (a.kind = b.kind /\ a.name = b.name /\ (a.rule = b.rule \/ StrLess(a.rule, b.rule)))

PromptLeq(a, b) == SeqLeq(a.name, b.name)

ToolsOrdered(s) == \A i, j \in DOMAIN s : i < j => ToolLeq(s[i], s[j])
SignalsOrdered(s) == \A i, j \in DOMAIN s : i < j => SignalLeq(s[i], s[j])
NotesOrdered(s) == \A i, j \in DOMAIN s : i < j => NoteLeq(s[i], s[j])
UrisOrdered(s) == \A i, j \in DOMAIN s : i < j => SeqLeq(s[i], s[j])
PromptsOrdered(s) == \A i, j \in DOMAIN s : i < j => PromptLeq(s[i], s[j])

C12_ListsAreOrdered ==
    emitted =>
        /\ ToolsOrdered(report.tools)
        /\ SignalsOrdered(report.signals)
        /\ NotesOrdered(report.notes)
        /\ UrisOrdered(report.resources)
        /\ UrisOrdered(report.resourceTemplates)
        /\ PromptsOrdered(report.prompts)

\* Two tools of different tiers, and notes of the diagnostic text merged into the
\* notes of two failed calls.
C12_Witness ==
    /\ SuccessDone /\ emitted
    /\ Len(report.tools) = 2
    /\ report.tools[1].risk = "destructive" /\ report.tools[2].risk = "read"
    /\ Len(report.signals) = 1
    /\ Len(report.notes) = 4
    /\ report.notes[1].name = "list_resource_templates"
    /\ report.notes[2].name = "list_resources"
    /\ report.notes[3].rule = "auth_hint"
    /\ report.notes[4].rule = "startup_stacktrace"

(***************************************************************************)
(* C13.  Tool names are unique within a report: whatever list the server   *)
(* returns from list_tools, one that repeats a name included, no two tools *)
(* of the report have the same name.                                       *)
(***************************************************************************)
C13_ToolNamesUnique ==
    report # NoReport =>
        \A i, j \in DOMAIN report.tools :
            i # j => report.tools[i].name # report.tools[j].name

(***************************************************************************)
(* C14.  The risk counts of every report have the three keys read, write   *)
(* and destructive, zero for a tier no tool has; each count is the number  *)
(* of tools of the report with that tier, and the three counts add up to   *)
(* the number of tools.                                                    *)
(***************************************************************************)
C14_RiskCounts ==
    report # NoReport =>
        /\ DOMAIN report.risk = { "read", "write", "destructive" }
        /\ \A r \in DOMAIN report.risk :
            report.risk[r] = Cardinality({ i \in DOMAIN report.tools : report.tools[i].risk = r })
        /\ report.risk["read"] + report.risk["write"] + report.risk["destructive"]
                = Len(report.tools)

\* The server lists the same destructive tool twice.
C14_Witness ==
    /\ SuccessDone
    /\ Len(report.tools) = 2
    /\ report.tools[1] = report.tools[2]
    /\ report.risk["destructive"] = 2
    /\ report.risk["read"] = 0 /\ report.risk["write"] = 0

(***************************************************************************)
(* C15.  Classification tests the verb sets in the order destructive,      *)
(* write, read over the name and the description joined, "_" and "-"       *)
(* separating words like a space: a text with a destructive verb as a      *)
(* whole word is destructive even if it has write or read verbs too, a     *)
(* text with a write verb and no destructive verb is write even if it has  *)
(* a read verb, and a text with only read verbs is read.                   *)
(***************************************************************************)
Separators == { " ", "_", "-" }

\* The name and the description joined by a space.
Joined == arg[1] \o << " " >> \o arg[2]

\* A verb of `verbs` stands in the joined text between separators or text ends.
HasVerb(verbs) ==
    \E i \in DOMAIN Joined :
        /\ Joined[i] \in verbs
        /\ i = 1 \/ Joined[i - 1] \in Separators
        /\ i = Len(Joined) \/ Joined[i + 1] \in Separators

DestructiveVerbs == { "delete", "remove", "destroy", "drop", "purge", "clear", "reset" }
WriteVerbs == { "create", "add", "update", "set", "send", "write", "upload" }
ReadVerbs == { "get", "list", "search", "read", "fetch", "find", "show", "view" }

C15_ClassifyPriority ==
    pc = "classified" =>
        /\ HasVerb(DestructiveVerbs) => ret[2] = "destructive"
        /\ ~HasVerb(DestructiveVerbs) /\ HasVerb(WriteVerbs) => ret[2] = "write"
        /\ ~HasVerb(DestructiveVerbs) /\ ~HasVerb(WriteVerbs) /\ HasVerb(ReadVerbs)
                => ret[2] = "read"

C15_Witness ==
    /\ pc = "classified"
    /\ arg = << << "update", "_", "delete" >>, << "get" >> >>
    /\ ret = << "red", "destructive" >>

(***************************************************************************)
(* C16.  classify is total: for every name and description the result is   *)
(* one of read, write and destructive; when no verb of the three sets      *)
(* stands as a whole word, the result is write.                            *)
(***************************************************************************)
C16_ClassifyTotal ==
    pc = "classified" =>
        /\ ret \in { << "red", "destructive" >>, << "yellow", "write" >>, << "green", "read" >> }
        /\ ~HasVerb(DestructiveVerbs \cup WriteVerbs \cup ReadVerbs) => ret[2] = "write"

\* "getitem": a read verb that is no whole word.
C16_Witness ==
    /\ pc = "classified"
    /\ arg = << << "get", "item" >>, << >> >>
    /\ ret = << "yellow", "write" >>

(***************************************************************************)
(* C17.  The scanner emits exactly one Signal for each subject and rule    *)
(* whose pattern matches the subject's text and none otherwise, so a       *)
(* subject matching k rules yields k signals; the output is sorted by      *)
(* (kind, name, rule); and it is the same list for every order of the      *)
(* rule table and of the input subjects.                                   *)
(***************************************************************************)
\* The subjects of the scan: what collect_signals hands to scan.
ScanSubjects ==
    [ i \in DOMAIN arg.tools |->
        [ kind |-> "tool", name |-> arg.tools[i].name,
          text |-> arg.tools[i].name \o << " " >> \o arg.tools[i].description ] ]
    \o [ i \in DOMAIN arg.prompts |->
        [ kind |-> "prompt", name |-> arg.prompts[i].name,
          text |-> arg.prompts[i].name \o << " ", " " >> \o arg.prompts[i].description ] ]

SignalsOf(out, s, rule) ==
    { i \in DOMAIN out : /\ out[i].kind = s.kind /\ out[i].name = s.name
                         /\ out[i].rule = rule /\ out[i].snippet = s.text }

C17_OnePerMatch ==
    pc = "scanned" =>
        /\ \A k \in DOMAIN ScanSubjects, r \in DOMAIN SUSPICIOUS_PATTERNS :
            Cardinality(SignalsOf(ret[1], ScanSubjects[k], SUSPICIOUS_PATTERNS[r]))
                = IF Suspicious(SUSPICIOUS_PATTERNS[r], ScanSubjects[k].text)
                  THEN Cardinality({ j \in DOMAIN ScanSubjects : ScanSubjects[j] = ScanSubjects[k] })
                  ELSE 0
        /\ \A i \in DOMAIN ret[1] :
            \E k \in DOMAIN ScanSubjects : i \in SignalsOf(ret[1], ScanSubjects[k], ret[1][i].rule)

C17_Sorted == pc = "scanned" => SignalsOrdered(ret[1]) /\ SignalsOrdered(ret[2])

C17_SameForEveryOrder == pc = "scanned" => ret[1] = ret[2]

C17_ScannerIsDeterministic == C17_OnePerMatch /\ C17_Sorted /\ C17_SameForEveryOrder

(***************************************************************************)
(* C18.  The snippet of a signal has at most 200 characters, the ellipsis  *)
(* appended to a truncated text included; a text of at most 200            *)
(* characters is kept unchanged, with no ellipsis.                         *)
(***************************************************************************)
C18_ShortTextKept == pc = "snipped" /\ CharLen(arg) <= 200 => ret = arg

C18_SnippetAtMost200 ==
    pc = "snipped" =>
        /\ CharLen(ret) <= 200
        /\ CharLen(arg) <= 200 => ret = arg

(***************************************************************************)
(* C19.  The findings of the signal scanner never affect the status: the   *)
(* final status is a function of the outcomes of the calls, of the         *)
(* diagnostic text and of whether anything was enumerated, so two probes   *)
(* that agree on these and differ in the declared texts, in the signals    *)
(* found or in whether scanning is enabled end with the same status.       *)
(***************************************************************************)
AnySoftFailure == \E i \in DOMAIN calls : calls[i].outcome \in { "timeout", "error" }

\* The status as the outcomes, the diagnostic text and the exception give it.
StatusOfOutcomes ==
    IF exit_code = 0
    THEN IF server_err \in AuthHintTexts /\ NothingEnumerated(report) THEN "auth_gated"
         ELSE IF AnySoftFailure THEN "partial"
         ELSE "ok"
    ELSE IF server_err \in AuthHintTexts THEN "auth_required"
         ELSE IF server_err \notin CrashTexts /\ TimeoutShaped(exc) THEN "timeout"
         ELSE "startup_error"

C19_SignalsNeverAffectStatus ==
    /\ pc = "done" => report.status = StatusOfOutcomes
    /\ InspectReturned => report.status = IF AnySoftFailure THEN "partial" ELSE "ok"

\* Signals were found and every call succeeded: the status is ok.
C19_Witness ==
    /\ SuccessDone
    /\ Len(report.signals) = 2
    /\ ~AnySoftFailure
    /\ server_err = << "item" >>
    /\ report.status = "ok"

(***************************************************************************)
(* C20.  diff(before, after) reports as added exactly the tool names of    *)
(* after that before lacks, as removed exactly those of before that after  *)
(* lacks, and for every name of both whose risk tier differs a line        *)
(* "~ name: old -> new"; no name is reported in more than one of added,    *)
(* removed and changed, and a name of both with equal risk is not          *)
(* reported.  A report that repeats a name counts by the last tool of that *)
(* name.                                                                   *)
(***************************************************************************)
ToolNames(r) == { r.tools[i].name : i \in DOMAIN r.tools }

RiskOf(r, n) ==
    r.tools[CHOOSE i \in DOMAIN r.tools :
                /\ r.tools[i].name = n
                /\ \A j \in (i + 1)..Len(r.tools) : r.tools[j].name # n].risk

\* The lines of the Tools section with the sign `sign`.
ToolLines(sign) ==
    { k \in DOMAIN ret : /\ ret[k] # << >> /\ ret[k][1] = sign
                         /\ Len(ret[k]) = IF sign = "~" THEN 4 ELSE 3 }

Reported(sign) == { ret[k][2] : k \in ToolLines(sign) }

C20_DiffOfTools ==
    pc = "diffed" =>
        LET before == arg[1]
            after == arg[2]
            both == ToolNames(before) \cap ToolNames(after)
        IN  /\ Reported("+") = ToolNames(after) \ ToolNames(before)
            /\ Reported("-") = ToolNames(before) \ ToolNames(after)
            /\ { ret[k] : k \in ToolLines("~") }
                    = { << "~", n, RiskOf(before, n), RiskOf(after, n) >> :
                            n \in { m \in both : RiskOf(before, m) # RiskOf(after, m) } }
            /\ Reported("+") \cap Reported("-") = { }
            /\ Reported("+") \cap Reported("~") = { }
            /\ Reported("-") \cap Reported("~") = { }
            /\ \A n \in both :
                RiskOf(before, n) = RiskOf(after, n)
                    => n \notin Reported("+") \cup Reported("-") \cup Reported("~")
            /\ \A sign \in { "+", "-", "~" } :
                Cardinality(ToolLines(sign)) = Cardinality(Reported(sign))

\* t1 goes from write to destructive and t2 disappears.
C20_Witness ==
    /\ pc = "diffed"
    /\ arg[1].tools = << [ name |-> << "t1" >>, risk |-> "write" ],
                         [ name |-> << "t2" >>, risk |-> "read" ] >>
    /\ arg[2].tools = << [ name |-> << "t1" >>, risk |-> "destructive" ] >>
    /\ \E k \in DOMAIN ret : ret[k] = << "~", << "t1" >>, "write", "destructive" >>
    /\ \E k \in DOMAIN ret : ret[k] = << "-", << "t2" >>, "read" >>

(***************************************************************************)
(* C21.  Diff is anti-symmetric on add/remove: for every two reports A and *)
(* B and every category (tools, resources and resource templates, prompts, *)
(* manifest entries), the set reported as added by diff(A, B) is the set   *)
(* reported as removed by diff(B, A).                                      *)
(***************************************************************************)
DiffSections ==
    { { << "Tools:" >> }, { << "Resources:" >> }, { << "Prompts:" >> },
      { << "Capabilities:" >>, << "Capabilities (now visible):" >> } }

\* The lines of the section of `text` under one of `heads`, up to the empty line.
SectionBody(text, heads) ==
    { k \in DOMAIN text :
        \E h \in DOMAIN text :
            /\ Len(text[h]) = 1 /\ text[h] \in heads
            /\ h < k
            /\ \A j \in h..k : text[j] # << >> }

\* What the section reports with the sign `sign`.
Signed(text, heads, sign) ==
    { text[k][2] : k \in { j \in SectionBody(text, heads) : text[j][1] = sign } }

C21_AddedIsRemovedBackwards ==
    pc = "capdiffed" =>
        \A heads \in DiffSections :
            /\ Signed(ret[1], heads, "+") = Signed(ret[2], heads, "-")
            /\ Signed(ret[1], heads, "-") = Signed(ret[2], heads, "+")

\* B has a tool that A lacks, and publishes a manifest where A has none.
C21_Witness ==
    /\ pc = "capdiffed"
    /\ Signed(ret[1], { << "Tools:" >> }, "+") = { << "t2" >> }
    /\ Signed(ret[2], { << "Tools:" >> }, "-") = { << "t2" >> }
    /\ Signed(ret[1], { << "Capabilities (now visible):" >> }, "+") = { << "t1" >> }
    /\ Signed(ret[2], { << "Capabilities:" >> }, "-") = { << "t1" >> }

(***************************************************************************)
(* C22.  diff reports "No changes detected." if and only if the tools, the *)
(* resources, the resource templates, the prompts and the manifest entries *)
(* of the two reports are pairwise identical; when any of them differs the *)
(* no-changes line is not emitted and a section lists a difference.        *)
(***************************************************************************)
PairwiseIdentical(before, after) ==
    /\ before.tools = after.tools
    /\ before.resources = after.resources
    /\ before.resourceTemplates = after.resourceTemplates
    /\ before.prompts = after.prompts
    /\ before.manifest = after.manifest

NoChanges(text) == \E k \in DOMAIN text : text[k] = << "No changes detected." >>

ListsADifference(text) ==
    \E heads \in DiffSections : SectionBody(text, heads) # { }

C22_NoChangesIffIdentical ==
    pc = "capdiffed" =>
        /\ NoChanges(ret[1]) <=> PairwiseIdentical(arg[1], arg[2])
        /\ ~PairwiseIdentical(arg[1], arg[2]) => ListsADifference(ret[1])

(***************************************************************************)
(* C23.  When both reports carry a manifest, the Capabilities section of   *)
(* the diff lists the manifest tools only in after as added and those only *)
(* in before as removed, each with its operation count, and for a tool of  *)
(* both whose operation list differs the transition                        *)
(* "~ tool: N operations -> M operations" followed by the added and the    *)
(* removed operation names, each sorted; a tool that loses all its         *)
(* operations goes to 0 operations; an unchanged manifest gives no         *)
(* Capabilities section.                                                   *)
(***************************************************************************)
ManifestTools(r) == { r.manifest[i].tool : i \in DOMAIN r.manifest }

OperationsOf(r, n) == r.manifest[CHOOSE i \in DOMAIN r.manifest : r.manifest[i].tool = n].operations

\* `names` lists the set S once each, in alphabetical order.
SortedListOf(names, S) ==
    /\ Range(names) = S
    /\ \A i, j \in DOMAIN names : i < j => SeqLess(names[i], names[j])

\* The lines of the Capabilities section of the diff from before to after.
CapBody == SectionBody(ret[1], { << "Capabilities:" >> })

\* The section has the transition of tool n from operations b to operations a,
\* with the names added and removed right below it.
TransitionReported(n, b, a) ==
    \E k \in CapBody :
        /\ ret[1][k] = << "~", n, Len(b), "operations", Len(a), "operations" >>
        /\ LET below == { j \in CapBody : /\ j > k
                                          /\ \A i \in (k + 1)..j : ret[1][i][1] # "~" }
           IN  /\ Range(a) \ Range(b) # { }
                    => \E j \in below : /\ ret[1][j][1] = "added:"
                                        /\ SortedListOf(ret[1][j][2], Range(a) \ Range(b))
               /\ Range(b) \ Range(a) # { }
                    => \E j \in below : /\ ret[1][j][1] = "removed:"
                                        /\ SortedListOf(ret[1][j][2], Range(b) \ Range(a))

C23_CapabilitiesSection ==
    pc = "capdiffed" /\ arg[1].manifest # << >> /\ arg[2].manifest # << >> =>
        LET before == arg[1]
            after == arg[2]
            both == ManifestTools(before) \cap ManifestTools(after)
        IN  /\ { ret[1][k] : k \in { j \in CapBody : ret[1][j][1] = "+" } }
                = { << "+", n, Len(OperationsOf(after, n)), "operations" >> :
                        n \in ManifestTools(after) \ ManifestTools(before) }
            /\ { ret[1][k] : k \in { j \in CapBody : ret[1][j][1] = "-" } }
                = { << "-", n, Len(OperationsOf(before, n)), "operations" >> :
                        n \in ManifestTools(before) \ ManifestTools(after) }
            /\ \A n \in both :
                OperationsOf(before, n) # OperationsOf(after, n)
                    => TransitionReported(n, OperationsOf(before, n), OperationsOf(after, n))
            /\ before.manifest = after.manifest => CapBody = { }

(***************************************************************************)
(* C24.  Manifest parsing is total and strict: for every input the result  *)
(* is the whole capability document or none, never a part of it; it is     *)
(* none when the input is not text, is not valid JSON, does not decode to  *)
(* an object, has no "tools" key, has a "tools" value that is not an       *)
(* object, or has a tool entry that is not an object; a document with an   *)
(* empty "tools" object is accepted.                                       *)
(***************************************************************************)
\* v is an object with a member "tools" that is an object of objects.
CapabilityDocument(v) ==
    /\ v.kind = "object"
    /\ \E i \in DOMAIN v.members :
        /\ v.members[i][1] = "tools"
        /\ v.members[i][2].kind = "object"
        /\ \A j \in DOMAIN v.members[i][2].members :
            v.members[i][2].members[j][2].kind = "object"

C24_ParseIsTotalAndStrict ==
    pc = "parsed" =>
        /\ ret = None \/ (CapabilityDocument(ret) /\ ret = arg.value)
        /\ ret = None <=> ~(arg.text /\ arg.valid /\ CapabilityDocument(arg.value))
        /\ arg.text /\ arg.valid /\ arg.value = JObject(<< << "tools", JObject(<< >>) >> >>)
            => ret = arg.value

\* The second of two tool entries is a string: there is no document, not the
\* part of it that is well formed.
C24_Witness ==
    /\ pc = "parsed"
    /\ arg.text /\ arg.valid
    /\ arg.value.kind = "object"
    /\ Keys(arg.value) = { "tools" }
    /\ Get(arg.value, "tools").kind = "object"
    /\ Len(Get(arg.value, "tools").members) = 2
    /\ Get(arg.value, "tools").members[1][2].kind = "object"
    /\ Get(arg.value, "tools").members[2][2].kind = "string"
    /\ ret = None

(***************************************************************************)
(* C25.  Manifest expansion emits one entry for each tool of the document, *)
(* sorted by tool name, and an entry carries an operation list if and only *)
(* if the tool declares a non-empty dispatch_key and a non-empty list      *)
(* under operations: with operations and no dispatch_key, with an empty    *)
(* list, or with operations that are not a list, the tool is single-action *)
(* and its entry has no operation list.                                    *)
(***************************************************************************)
\* The members of the "tools" object of the document read.
DocumentTools ==
    arg.value.members[CHOOSE i \in DOMAIN arg.value.members :
                        arg.value.members[i][1] = "tools"][2].members

\* The member `key` of the tool entry `info` is a value of kind `kind` that is
\* not empty.
NonEmptyMember(info, key, kind) ==
    \E m \in DOMAIN info.members :
        /\ info.members[m][1] = key
        /\ info.members[m][2].kind = kind
        /\ IF kind = "array" THEN info.members[m][2].items # << >>
           ELSE info.members[m][2].value # ""

C25_ExpandOneEntryPerTool ==
    pc = "expanded" =>
        /\ Len(ret) = Len(DocumentTools)
        /\ { ret[i].tool : i \in DOMAIN ret } = { DocumentTools[j][1] : j \in DOMAIN DocumentTools }
        /\ \A i, j \in DOMAIN ret : i < j => StrLess(ret[i].tool, ret[j].tool)
        /\ \A i \in DOMAIN ret : \A j \in DOMAIN DocumentTools :
            DocumentTools[j][1] = ret[i].tool =>
                LET info == DocumentTools[j][2]
                    both == /\ NonEmptyMember(info, "dispatch_key", "string")
                            /\ NonEmptyMember(info, "operations", "array")
                IN  /\ "operations" \in DOMAIN ret[i] <=> both
                    /\ both => \E m \in DOMAIN info.members :
                                /\ info.members[m][1] = "operations"
                                /\ ret[i].operations = info.members[m][2].items

\* The document lists t2 before t1; t2 has operations and no dispatch_key, t1 has
\* both: the entries come out as t1 with its operations, then t2 without any.
C25_Witness ==
    /\ pc = "expanded"
    /\ Len(DocumentTools) = 2
    /\ DocumentTools[1] = << "t2", JObject(<< << "operations", JArray(<< "get" >>) >> >>) >>
    /\ DocumentTools[2][1] = "t1"
    /\ ret = << [ tool |-> "t1", operations |-> << "get", "delete" >> ], [ tool |-> "t2" ] >>

(***************************************************************************)
(* C26.  The session with the spawned process and the diagnostic-capture   *)
(* stream are released on every exit path: whether the probe ends in       *)
(* success, after a soft stage failure or in a fatal failure, the run      *)
(* reaches a state where neither the session nor the process nor the       *)
(* stream is open, and no terminal state leaves one of them open.          *)
(***************************************************************************)
Released == session # "open" /\ transport # "open" /\ errlog = "closed"

C26_ResourcesReleased ==
    /\ [](pc = "done" => Released)
    /\ <>(pc = "done" /\ Released)

\* A list call was cancelled after a successful initialize: the run ends with the
\* session, the process and the stream closed.
C26_Witness ==
    /\ pc = "done"
    /\ exit_code = 1
    /\ Len(calls) >= 2
    /\ calls[Len(calls)].outcome = "cancelled"
    /\ session = "closed" /\ transport = "closed" /\ errlog = "closed"

(***************************************************************************)
(* C27.  Within one probe the transport calls are issued strictly in the   *)
(* order initialize, list_tools, list_resources, list_resource_templates,  *)
(* list_prompts, each after the previous one has completed, failed or      *)
(* timed out: a step issues at most one call and has its outcome before    *)
(* the next step, so no two calls are in flight at once; and no list call  *)
(* is issued unless initialize has completed successfully.                 *)
(***************************************************************************)
StageIndex(name) == CHOOSE i \in DOMAIN Stages : Stages[i] = name

CallsInOrder ==
    /\ \A i, j \in DOMAIN calls : i < j => StageIndex(calls[i].name) < StageIndex(calls[j].name)
    /\ calls # << >> => calls[1].name = "initialize"
    /\ \A i \in DOMAIN calls : i > 1 => calls[1].outcome = "ok"
    /\ \A i \in DOMAIN calls : i < Len(calls) => calls[i].outcome \in { "ok", "timeout", "error" }

\* A step issues at most one call, on the open session, the one the probe has
\* come to, and only once the calls before it have their outcomes.
OneCallAtATime ==
    \/ calls' = calls
    \/ /\ Len(calls') = Len(calls) + 1
       /\ SubSeq(calls', 1, Len(calls)) = calls
       /\ calls'[Len(calls')].name = pc
       /\ calls'[Len(calls')].outcome \in Outcomes
       /\ session = "open"

C27_CallsInSequence == [](CallsInOrder) /\ [][OneCallAtATime]_vars

\* All five calls were made, the resource listing timed out in between.
C27_Witness ==
    /\ Len(calls) = 5
    /\ [ i \in 1..5 |-> calls[i].name ] = Stages
    /\ calls[3].outcome = "timeout"
    /\ calls[5].outcome = "ok"

(***************************************************************************)
(* C28.  The snippet of a note derived from the diagnostic text has at     *)
(* most 600 characters (auth_hint) or 900 characters (startup_stacktrace); *)
(* when the text is longer than the limit the snippet is the truncation    *)
(* marker followed by a suffix of the text that includes its final         *)
(* characters, and the suffix starts just after a line break when one      *)
(* occurs within the first 200 characters of the tail.                     *)
(***************************************************************************)
\* `snippet` is the marker and then the last characters of the text s.
MarkerAndSuffix(snippet, s) ==
    /\ Len(snippet) >= 2
    /\ SubSeq(snippet, 1, 2) = << "ELLIPSIS", "\n" >>
    /\ Len(snippet) - 2 <= Len(s)
    /\ SubSeq(snippet, 3, Len(snippet)) = SubSeq(s, Len(s) - (Len(snippet) - 2) + 1, Len(s))

\* The tail of s, its last `limit` characters, has a line break among its first
\* 200 characters.
BreakEarlyInTail(s, limit) ==
    \E i \in 1..200 : s[Len(s) - limit + i] = "\n"

SnippetIsBoundedTail(snippet, s, limit) ==
    /\ Len(snippet) <= limit
    /\ Len(s) > limit =>
        /\ MarkerAndSuffix(snippet, s)
        /\ BreakEarlyInTail(s, limit) => s[Len(s) - (Len(snippet) - 2)] = "\n"

C28_SnippetIsBoundedTail ==
    pc = "excerpted" =>
        /\ SnippetIsBoundedTail(ret[1], strip(arg), 600)
        /\ SnippetIsBoundedTail(ret[2], strip(arg), 900)

(***************************************************************************)
(* C29.  A report whose Error names the stage initialize is produced only  *)
(* when initialize did not complete successfully: once initialize has      *)
(* succeeded, no later failure (a list call cancelled, a failure while     *)
(* post-processing or rendering the report) ends in a report that says     *)
(* initialize failed, with empty capability data.                          *)
(***************************************************************************)
InitializeSucceeded == calls # << >> /\ calls[1].name = "initialize" /\ calls[1].outcome = "ok"

BlamesInitialize(rep) ==
    /\ rep # NoReport
    /\ \E i \in DOMAIN rep.errors : rep.errors[i].name = "initialize"

C29_InitializeBlamedOnlyWhenItFailed ==
    emitted /\ BlamesInitialize(report) => ~InitializeSucceeded

(***************************************************************************)
(* C30.  On the success path status and failure records agree.  In the     *)
(* report inspect() returns, before the diagnostic text is looked at, the  *)
(* status is partial if and only if the errors or the mcp-kind notes are   *)
(* non-empty and ok otherwise, with at most one Error, of list_tools, and  *)
(* at most three mcp notes.  Post-processing keeps the errors and the mcp  *)
(* notes and changes the status only to auth_gated, also when it was       *)
(* partial: an auth_gated report may carry a list_tools Error and stage    *)
(* notes.                                                                  *)
(***************************************************************************)
McpNotes(rep) == SelectSeq(rep.notes, LAMBDA n : n.kind = "mcp")

StatusAgreesWithRecords(rep) ==
    /\ rep.status = IF rep.errors # << >> \/ McpNotes(rep) # << >> THEN "partial" ELSE "ok"
    /\ Len(rep.errors) <= 1
    /\ \A i \in DOMAIN rep.errors : rep.errors[i].name = "list_tools"
    /\ Len(McpNotes(rep)) <= 3
    /\ \A i \in DOMAIN McpNotes(rep) : McpNotes(rep)[i].name \in OptionalCalls

\* The step of main() that post-processes the report inspect() returned.
PostProcessed ==
    pc = "returned" /\ exit_code' = 0 =>
        /\ report'.status \in { report.status, "auth_gated" }
        /\ report'.errors = report.errors
        /\ McpNotes(report') = McpNotes(report)

C30_StatusAgreesWithRecords ==
    /\ [](InspectReturned => StatusAgreesWithRecords(report))
    /\ [][PostProcessed]_vars

\* list_tools failed and so did a resource listing, nothing was enumerated and the
\* diagnostic text hints at authentication: the report is auth_gated and still
\* carries the Error and the note.
C30_Witness ==
    /\ SuccessDone
    /\ report.status = "auth_gated"
    /\ Len(report.errors) = 1 /\ report.errors[1].name = "list_tools"
    /\ McpNotes(report) # << >>
====
